---- MODULE Spec2Model ----
(***************************************************************************)
(* Model of github.com/tochemey/gopack.                                    *)
(*                                                                         *)
(* Part 1: gcp/pubsub Subscriber.Consume (src/gcp/pubsub/subscriber.go).   *)
(* One Subscriber, NumCalls calls of Consume on it, each call with its own *)
(* ctx, its own errChan and its own caller ranging over errChan.  Every    *)
(* synchronisation operation of Consume (mutex, channel send/receive,      *)
(* close, select) is one action.  The pubsub client's Receive is the       *)
(* environment: it starts callbacks, may break with a transport error and  *)
(* returns once ctx is done or it has broken and no callback is            *)
(* outstanding.                                                            *)
(*                                                                         *)
(* Part 2: gcp/pubsub NewSubscriber with ensureTopic, ensureSubscription   *)
(* and applyDefaults (src/gcp/pubsub/tooling_test.go) and                  *)
(* SubscriberConfig.Validate (src/gcp/pubsub/config.go).  The constructor  *)
(* is called MaxCtorCalls times, one call after the other, against a       *)
(* remote Pub/Sub state (topics and subscriptions).  Every remote call is  *)
(* one action whose answer is the remote's own answer for its state, or    *)
(* an injected one (an error status, a plain error, an empty topic).       *)
(*                                                                         *)
(* Part 3: scheduler JobsScheduler (src/scheduler/scheduler.go): Start,    *)
(* Stop and Schedule on one scheduler, over a quartz scheduler that keeps  *)
(* the scheduled jobs in its queue and runs them while it is started.      *)
(*                                                                         *)
(* Part 4: postgres TxRunner (src/postgres/tx_runner.go): builders are     *)
(* added to one runner and Execute is called on it; every BuildQuery, every*)
(* ExecContext, the Rollback and the Commit are steps whose outcome the    *)
(* builder or the database decides.                                        *)
(*                                                                         *)
(* Part 5: future Future (src/future/future.go): one Future made by New,   *)
(* its task goroutine, and NumAwaits calls of Await, each with its own     *)
(* ctx.  sync.Once is modelled by its state: not run, running (later       *)
(* callers of Do block), done.                                             *)
(*                                                                         *)
(* Part 6: gcp/pubsub Publisher.Publish (src/gcp/pubsub/publisher.go): one *)
(* call with a batch of up to MaxBatch messages; handing a message to      *)
(* t.Publish and getting a publish result are steps.                       *)
(***************************************************************************)
EXTENDS Integers, Sequences, FiniteSets, TLC

\* ------------------------------------------------------------- bounds
NumCalls == 2      \* Consume calls made on the Subscriber
MaxMsgs == 2       \* messages the subscription delivers in total
ErrChanCap == 1    \* capacity of the caller's buffered errChan
MaxCtorCalls == 2  \* NewSubscriber calls made against the remote state
MaxBuilders == 3   \* query builders added to the TxRunner
NumAwaits == 2     \* Await calls made on the Future
MaxBatch == 3      \* messages in the batch handed to Publish

\* capacity of the internal channel: make(chan *pubsub.Message, 1)
MessageChanCap == 1

Calls == 1..NumCalls
Msgs == 1..MaxMsgs

\* errors that travel on errChan
HandlerError == "handler"
ReceiveError == "receive"
\* the error the tests expect of a recovered handler panic
PanicError == "panic in subscription handler"

VARIABLES
    pc,                      \* position of each Consume call
    mutex,                   \* s.mutex: 0 when free, else the call holding it
    cancelled,               \* ctx.Done() of each call's ctx is closed
    message,                 \* the internal channel of each call
    cur,                     \* msg of the running loop iteration (0: none)
    panicking,               \* the call is unwinding a handler panic
    gr,                      \* position of each call's receive goroutine
    recvFailed,              \* Receive of the call broke with a transport error
    pending,                 \* messages whose callback is blocked on message <- msg
    nextMsg,                 \* next message the subscription delivers
    ackState,                \* per message: "none", "ack", "nack", "both"
    errBuf,                  \* buffer of each errChan
    errClosed,               \* errChan is closed
    closeCount,              \* close(errChan) executions per call
    sent,                    \* history: errors sent on errChan, in order
    removed,                 \* history: errors the receive goroutine took off errChan
    checkSaw,                \* history: what the goroutine's select found
    got,                     \* errors the caller's range loop received
    runningAtCall,           \* history: calls past Lock and not returned when c was called
    messagesReceivedCount,   \* Subscriber.messagesReceivedCount
    messagesProcessedCount,  \* Subscriber.messagesProcessedCount
    handlerRuns,             \* history: handler invocations started per call
    failedAt,                \* history: invocation whose handler returned an error
    outcome,                 \* history: how the handler ended for each message
    crashed,                 \* the process died of a send on a closed channel
    ctorPc,                  \* position of the running NewSubscriber call
    ctorGiven,               \* the config as the caller passed it
    ctorCfg,                 \* the config as the call has it now
    validateErr,             \* history: what cfg.Validate() returned
    ctorCalls,               \* history: remote calls of the running/last call
    ctorInjected,            \* history: a remote answer of the call was injected
    topicRes,                \* history: what ensureTopic returned
    subRes,                  \* history: what ensureSubscription returned
    ctorLog,                 \* history: the results of the completed calls
    rTopics,                 \* remote state: the topics that exist
    rSubs,                   \* remote state: the subscriptions that exist
    started,                 \* JobsScheduler.started
    jobs,                    \* JobsScheduler.jobs: the registered jobs, one per ID
    quartzStarted,           \* the quartz scheduler's IsStarted()
    quartzQueue,             \* the quartz scheduler's queue of job details and triggers
    stopPc,                  \* position of the running Stop call
    stopRes,                 \* history: what the last Stop call returned
    phase,                   \* history: "new", "started" or "stopped"
    lastSchedule,            \* history: the last Schedule call and its result
    accepted,                \* history: the jobs whose Schedule returned nil
    jobRuns,                 \* history: the jobs the quartz scheduler has run
    builders,                \* TxRunner.builders
    queries,                 \* Execute's queries: the builders whose query was built
    txPc,                    \* position of Execute
    txI,                     \* index of the running loop of Execute
    txBuilt,                 \* history: the builders whose BuildQuery was called
    txOps,                   \* history: the operations made on r.tx, in order
    txErr,                   \* what Execute returned
    taskState,               \* the task goroutine: "running", or how the task ended
    completeOnce,            \* future.completeOnce has run
    completions,             \* history: sends on future.done
    acceptOnce,              \* future.acceptOnce: "idle", "running", "done"
    futureDone,              \* future.done, a channel of capacity 1
    futureValue,             \* future.value
    futureErr,               \* future.err
    awaitPc,                 \* position of each Await call
    ctxCancelled,            \* the ctx of each Await call is cancelled
    awaitRes,                \* history: what each Await call returned, and when
    publishPc,               \* position of the Publish call
    enableMessageOrdering,   \* t.EnableMessageOrdering
    messages,                \* the batch: the Key of each message
    publishI,                \* index of the running loop of Publish
    results,                 \* the messages handed to t.Publish, in order
    resultErrors,            \* the messages whose result.Get returned an error
    publishErr               \* what Publish returned

vars == <<pc, mutex, cancelled, message, cur, panicking, gr, recvFailed, pending,
          nextMsg, ackState, errBuf, errClosed, closeCount, sent, removed,
          checkSaw, got, runningAtCall, messagesReceivedCount, messagesProcessedCount,
          handlerRuns, failedAt, outcome, crashed,
          ctorPc, ctorGiven, ctorCfg, validateErr, ctorCalls, ctorInjected,
          topicRes, subRes, ctorLog, rTopics, rSubs,
          started, jobs, quartzStarted, quartzQueue, stopPc, stopRes, phase,
          lastSchedule, accepted, jobRuns,
          builders, queries, txPc, txI, txBuilt, txOps, txErr,
          taskState, completeOnce, completions, acceptOnce, futureDone, futureValue,
          futureErr, awaitPc, ctxCancelled, awaitRes,
          publishPc, enableMessageOrdering, messages, publishI, results, resultErrors,
          publishErr>>

\* the variables of Part 1 and of Part 2
consumeVars == <<pc, mutex, cancelled, message, cur, panicking, gr, recvFailed, pending,
                 nextMsg, ackState, errBuf, errClosed, closeCount, sent, removed,
                 checkSaw, got, runningAtCall, messagesReceivedCount,
                 messagesProcessedCount, handlerRuns, failedAt, outcome, crashed>>
ctorVars == <<ctorPc, ctorGiven, ctorCfg, validateErr, ctorCalls, ctorInjected,
              topicRes, subRes, ctorLog, rTopics, rSubs>>
\* the variables of Part 3
schedVars == <<started, jobs, quartzStarted, quartzQueue, stopPc, stopRes, phase,
               lastSchedule, accepted, jobRuns>>
\* the variables of Part 4
txVars == <<builders, queries, txPc, txI, txBuilt, txOps, txErr>>
\* the variables of Part 5
futureVars == <<taskState, completeOnce, completions, acceptOnce, futureDone,
                futureValue, futureErr, awaitPc, ctxCancelled, awaitRes>>
\* the variables of Part 6
publishVars == <<publishPc, enableMessageOrdering, messages, publishI, results,
                 resultErrors, publishErr>>
\* the variables of the parts after Part 2
restVars == <<schedVars, txVars, futureVars, publishVars>>
\* what a step of Consume, of NewSubscriber, of the scheduler, of the TxRunner,
\* of the Future, of Publish leaves alone
outsideConsume == <<ctorVars, restVars>>
outsideCtor == <<consumeVars, restVars>>
outsideSched == <<consumeVars, ctorVars, txVars, futureVars, publishVars>>
outsideTx == <<consumeVars, ctorVars, schedVars, futureVars, publishVars>>
outsideFuture == <<consumeVars, ctorVars, schedVars, txVars, publishVars>>
outsidePublish == <<consumeVars, ctorVars, schedVars, txVars, futureVars>>

chanVars == <<errBuf, errClosed, closeCount, sent, removed, checkSaw>>
callerVars == <<got, runningAtCall>>
recvVars == <<gr, recvFailed, pending, nextMsg>>
countVars == <<messagesReceivedCount, messagesProcessedCount, handlerRuns, failedAt>>

\* ------------------------------------------- values of Part 2
\* MinimumBackoff and MaximumBackoff, in milliseconds
MinimumBackoff == 200
MaximumBackoff == 600000

\* a RetryPolicy; NoRetry stands for the nil pointer
NoRetry == [minimumBackoff |-> 0, maximumBackoff |-> 0]
DefaultRetry == [minimumBackoff |-> MinimumBackoff, maximumBackoff |-> MaximumBackoff]
CustomRetry == [minimumBackoff |-> 100000, maximumBackoff |-> 1000000]

\* pubsubpb.Subscription: the fields the constructor reads; NoSub is the
\* zero value (and the nil pointer)
NoSub == [name |-> "", topic |-> "", retry |-> NoRetry,
          ackDeadlineSeconds |-> 0, enableMessageOrdering |-> FALSE]
SubscriptionSpecs ==
    [name : {"", "s1"}, topic : {"", "t1"}, retry : {NoRetry, CustomRetry},
     ackDeadlineSeconds : {0}, enableMessageOrdering : {FALSE}]

\* *SubscriberConfig: present is FALSE for the nil pointer, hasSpec is FALSE
\* for a nil SubscriptionConfig, logger is FALSE for a nil Logger;
\* subscriptionID is the SubscriptionID that NewSubscriberWithDefaults writes
\* into the config and that nothing reads
NilCfg == [present |-> FALSE, hasSpec |-> FALSE, spec |-> NoSub, logger |-> FALSE,
           subscriptionID |-> ""]
SubscriberConfigs ==
    {NilCfg}
    \cup [present : {TRUE}, hasSpec : {FALSE}, spec : {NoSub}, logger : BOOLEAN,
          subscriptionID : {""}]
    \cup [present : {TRUE}, hasSpec : {TRUE}, spec : SubscriptionSpecs, logger : BOOLEAN,
          subscriptionID : {""}]
\* the arguments NewSubscriberWithDefaults is called with, and the config it
\* builds from them
SubscriptionIDs == {"", "s1"}
TopicNames == {"t1", "t2"}
DefaultsConfig(subscriptionID, topicName) ==
    [present |-> TRUE, hasSpec |-> TRUE, logger |-> TRUE,
     subscriptionID |-> subscriptionID,
     spec |-> [name |-> "", topic |-> topicName, retry |-> NoRetry,
               ackDeadlineSeconds |-> 10, enableMessageOrdering |-> TRUE]]

\* errors are pairs: a message (or a status code) and its argument
Err(msg, arg) == <<msg, arg>>
NoErr == Err("", "")
Pending == Err("pending", "")
\* the error a remote call fn answers with: a gRPC status of the given code,
\* or ("plain") an error that carries no status
ErrorCodes == {"AlreadyExists", "NotFound", "InvalidArgument", "Unknown", "plain"}
RemoteErr(code, fn) == Err(code, fn)
\* what a remote call can answer
Answers == {"ok", "empty"} \cup ErrorCodes

\* validation.New(validation.FailFast())...Validate(): the error of the
\* first assertion that does not hold, nil when all hold
RECURSIVE FailFastValidate(_)
FailFastValidate(assertions) ==
    IF assertions = <<>> THEN NoErr
    ELSE IF ~Head(assertions)[1] THEN Err(Head(assertions)[2], "")
    ELSE FailFastValidate(Tail(assertions))

\* faulty variant of Assertions: the topic is checked before the logger
AssertionsTopicFirst(c) ==
    << <<c.hasSpec, "subscription config is not set">>,
       <<c.hasSpec /\ c.spec.topic # "", "subscription topic is not set">>,
       <<c.logger, "subscription logger is not set">>,
       <<c.hasSpec /\ c.spec.name # "", "subscription id is not set">> >>

\* the assertions SubscriberConfig.Validate adds, in its order
Assertions(c) ==
    << <<c.hasSpec, "subscription config is not set">>,
       <<c.logger, "subscription logger is not set">>,
       <<c.hasSpec /\ c.spec.topic # "", "subscription topic is not set">>,
       <<c.hasSpec /\ c.spec.name # "", "subscription id is not set">> >>

\* SubscriberConfig.Validate
Validate(c) == FailFastValidate(Assertions(c))

\* applyDefaults: a missing RetryPolicy is set to the package defaults, in
\* the caller's config
applyDefaults(c) ==
    IF c.spec.retry = NoRetry THEN [c EXCEPT !.spec.retry = DefaultRetry] ELSE c

\* UpdateSubscriptionRequest{Subscription: cfg}: no update mask is set
UpdateRequest(sub) == [subscription |-> sub, mask |-> {}]

\* the remote's own answers, by its state
GetTopicAnswer(t) == IF t \in rTopics THEN "ok" ELSE "NotFound"
CreateTopicAnswer(t) == IF t \in rTopics THEN "AlreadyExists" ELSE "ok"
CreateSubscriptionAnswer(sub) ==
    IF sub.topic \notin rTopics THEN "NotFound"
    ELSE IF \E r \in rSubs : r.name = sub.name THEN "AlreadyExists"
    ELSE "ok"
\* a request without update mask is rejected by the service, which requires
\* one; the fake server of the tests (pstest) accepts it
UpdateSubscriptionAnswers(req) ==
    IF ~\E r \in rSubs : r.name = req.subscription.name THEN {"NotFound"}
    ELSE IF req.mask = {} THEN {"ok", "InvalidArgument"}
    ELSE {"ok"}
\* UpdateSubscription changes the fields of the subscription that the
\* request's update mask names
UpdatedSub(r, req) ==
    [r EXCEPT !.retry = IF "retry_policy" \in req.mask THEN req.subscription.retry ELSE @]

\* the record of a remote call
RemoteCall(fn, sub, answer) == [fn |-> fn, sub |-> sub, answer |-> answer]
\* the remote calls to fn that the running (or last) NewSubscriber call made
CallsTo(fn) == {i \in DOMAIN ctorCalls : ctorCalls[i].fn = fn}
\* what ensureSubscription returns
SubResult(sub, err) == [sub |-> sub, err |-> err]

\* ------------------------------------------- values of Part 3
\* the jobs handed to Schedule: two of them have the same ID
JobObjects == {[id |-> "j1", n |-> 1], [id |-> "j1", n |-> 2], [id |-> "j2", n |-> 1]}
NoJob == [id |-> "", n |-> 0]
\* the cron expressions handed to Schedule
CronExpressions == {"* * * * * ?", "not a cron expression"}
\* quartz.NewCronTriggerWithLoc: the expression parses or it does not
ValidCron(cronExpression) == cronExpression = "* * * * * ?"
\* what quartzScheduler.ScheduleJob and quartzScheduler.Clear can answer
QuartzAnswers == {"ok", "error"}
ErrSchedulerNotStarted == Err("ErrSchedulerNotStarted", "")
\* a Schedule call and its result
ScheduleResult(cronExpression, job, err) ==
    [cron |-> cronExpression, job |-> job, err |-> err, phase |-> phase]

\* ------------------------------------------- values of Part 4
\* a QueryBuilder: whether its BuildQuery succeeds, and whether the statement
\* it builds executes
QueryBuilders == [build : {"ok", "error"}, exec : {"ok", "error"}]
\* what r.tx.Rollback() and r.tx.Commit() can answer
TxAnswers == {"ok", "error"}
\* errors of the TxRunner: the failing call and the builder it belongs to;
\* wrap is the message errors.Wrap puts in front of the error
TxError(call, i) == [cause |-> <<call, i>>, wrap |-> ""]
TxNil == TxError("nil", 0)
TxPending == TxError("pending", 0)
Wrap(err, msg) == [err EXCEPT !.wrap = msg]
\* an operation on r.tx
TxOp(op, i) == <<op, i>>
\* the error Execute returns after a rollback with answer rb
AfterRollback(err, rb) == IF rb = "error" THEN Wrap(err, "rollback failed") ELSE err

\* ------------------------------------------- values of Part 5
Awaits == 1..NumAwaits
\* how the task can end: with a value, or with an error
TaskResults == {"value", "error"}
\* the value the task returns, the zero value of T, the task's error, ctx.Err()
TaskValue == "task value"
ZeroValue == ""
TaskError == "task error"
ContextCanceled == "context canceled"
\* what travels on future.done: an error or a value
DoneItem(r) == IF r = "error" THEN [isError |-> TRUE, v |-> TaskError]
               ELSE [isError |-> FALSE, v |-> TaskValue]
\* what an Await call returns: x.value, x.err; with them, whether the task had
\* completed and whether the call's ctx was cancelled when it returned
AwaitResult(value, err, completed, cancelledCtx) ==
    [value |-> value, err |-> err, completed |-> completed, cancelled |-> cancelledCtx]
NoAwaitResult == AwaitResult(ZeroValue, "pending", FALSE, FALSE)

\* ------------------------------------------- values of Part 6
\* Message.Key: empty or not
MessageKeys == {"", "k"}
\* the batches handed to Publish
Batches == UNION {[1..n -> MessageKeys] : n \in 0..MaxBatch}
\* what result.Get can answer
GetAnswers == {"ok", "error"}
\* the errors of Publish: a message and the index of the message it is about
PublishError(msg, i) == [msg |-> msg, at |-> i]
PublishNil == PublishError("", 0)
PublishPending == PublishError("pending", 0)
KeyRequired == PublishError("message key is required when MessageOrdering is enabled", 0)

\* ------------------------------------------------------------- Init
\* A Subscriber as NewSubscriber returns it: counters zero, mutex free.
Init ==
    /\ pc = [c \in Calls |-> "idle"]
    /\ mutex = 0
    /\ cancelled = [c \in Calls |-> FALSE]
    /\ message = [c \in Calls |-> <<>>]
    /\ cur = [c \in Calls |-> 0]
    /\ panicking = [c \in Calls |-> FALSE]
    /\ gr = [c \in Calls |-> "none"]
    /\ recvFailed = [c \in Calls |-> FALSE]
    /\ pending = [c \in Calls |-> {}]
    /\ nextMsg = 1
    /\ ackState = [m \in Msgs |-> "none"]
    /\ errBuf = [c \in Calls |-> <<>>]
    /\ errClosed = [c \in Calls |-> FALSE]
    /\ closeCount = [c \in Calls |-> 0]
    /\ sent = [c \in Calls |-> <<>>]
    /\ removed = [c \in Calls |-> <<>>]
    /\ checkSaw = [c \in Calls |-> "none"]
    /\ got = [c \in Calls |-> <<>>]
    /\ runningAtCall = [c \in Calls |-> {}]
    /\ messagesReceivedCount = 0
    /\ messagesProcessedCount = 0
    /\ handlerRuns = [c \in Calls |-> 0]
    /\ failedAt = [c \in Calls |-> 0]
    /\ outcome = [m \in Msgs |-> "none"]
    /\ crashed = FALSE
    /\ ctorPc = "idle"
    /\ ctorGiven = NilCfg
    /\ ctorCfg = NilCfg
    /\ validateErr = Pending
    /\ ctorCalls = <<>>
    /\ ctorInjected = FALSE
    /\ topicRes = Pending
    /\ subRes = SubResult(NoSub, Pending)
    /\ ctorLog = <<>>
    /\ rTopics = {}
    /\ rSubs = {}
    /\ started = FALSE
    /\ jobs = {}
    /\ quartzStarted = FALSE
    /\ quartzQueue = {}
    /\ stopPc = "idle"
    /\ stopRes = "none"
    /\ phase = "new"
    /\ lastSchedule = [cron |-> "", job |-> NoJob, err |-> Pending, phase |-> "new"]
    /\ accepted = {}
    /\ jobRuns = {}
    /\ builders = <<>>
    /\ queries = <<>>
    /\ txPc = "new"
    /\ txI = 0
    /\ txBuilt = <<>>
    /\ txOps = <<>>
    /\ txErr = TxPending
    /\ taskState = "running"
    /\ completeOnce = FALSE
    /\ completions = 0
    /\ acceptOnce = "idle"
    /\ futureDone = <<>>
    /\ futureValue = ZeroValue
    /\ futureErr = ""
    /\ awaitPc = [a \in Awaits |-> "idle"]
    /\ ctxCancelled = [a \in Awaits |-> FALSE]
    /\ awaitRes = [a \in Awaits |-> NoAwaitResult]
    /\ publishPc = "idle"
    /\ enableMessageOrdering = FALSE
    /\ messages = <<>>
    /\ publishI = 0
    /\ results = <<>>
    /\ resultErrors = <<>>
    /\ publishErr = PublishPending

\* ------------------------------------------------------------- helpers
\* msg.Ack() / msg.Nack(): the acknowledgment of a message; "both" records a
\* message that was given a second acknowledgment.
SetAck(m, how) ==
    [ackState EXCEPT ![m] = IF @ = "none" THEN how ELSE "both"]

\* positions at which a call is inside its for/select loop
LoopPcs == {"select", "handler", "send", "nack"}
InLoop(c) == pc[c] \in LoopPcs
Finished(c) == pc[c] \in {"returned", "panicked"}
\* positions between s.mutex.Lock() and the deferred s.mutex.Unlock()
HoldsLock(c) == pc[c] \in LoopPcs \cup {"unlock"}
\* the call has taken the lock and has not yet returned to its caller
Running(c) == pc[c] \in LoopPcs \cup {"unlock", "close"}
\* for e := range errChan ends: errChan is closed and drained
RangeEnded(c) == errClosed[c] /\ errBuf[c] = <<>>
CountOf(s, e) == Cardinality({i \in DOMAIN s : s[i] = e})
\* handler invocations started by the calls 1..n of Consume
RECURSIVE HandlerRunsUpTo(_)
HandlerRunsUpTo(n) == IF n = 0 THEN 0 ELSE handlerRuns[n] + HandlerRunsUpTo(n - 1)

\* ------------------------------------------------------------- Consume
\* Consume is called: defer close(errChan) is registered, the call goes on to
\* s.mutex.Lock().  Calls are numbered in the order they are made.
Call(c) ==
    /\ ~crashed
    /\ UNCHANGED outsideConsume
    /\ pc[c] = "idle"
    /\ IF c = 1 THEN TRUE ELSE pc[c - 1] # "idle"
    /\ pc' = [pc EXCEPT ![c] = "lock"]
    /\ runningAtCall' = [runningAtCall EXCEPT ![c] = {d \in Calls : Running(d)}]
    /\ UNCHANGED <<mutex, cancelled, message, cur, panicking, ackState, outcome>>
    /\ UNCHANGED <<chanVars, got, recvVars, countVars, crashed>>

\* faulty variant of Lock: the lock is taken without waiting for it to be free
LockNoWait(c) ==
    /\ ~crashed
    /\ UNCHANGED outsideConsume
    /\ pc[c] = "lock"
    /\ mutex' = c
    /\ pc' = [pc EXCEPT ![c] = "select"]
    /\ gr' = [gr EXCEPT ![c] = "receiving"]
    /\ UNCHANGED <<cancelled, message, cur, panicking, ackState, outcome>>
    /\ UNCHANGED <<chanVars, callerVars, recvFailed, pending, nextMsg, countVars, crashed>>

\* s.mutex.Lock() succeeds; message := make(chan, 1); go func(){ Receive }()
Lock(c) ==
    /\ ~crashed
    /\ UNCHANGED outsideConsume
    /\ pc[c] = "lock"
    /\ mutex = 0
    /\ mutex' = c
    /\ pc' = [pc EXCEPT ![c] = "select"]
    /\ gr' = [gr EXCEPT ![c] = "receiving"]
    /\ UNCHANGED <<cancelled, message, cur, panicking, ackState, outcome>>
    /\ UNCHANGED <<chanVars, callerVars, recvFailed, pending, nextMsg, countVars, crashed>>

\* select case msg := <-message: the counter is bumped and the handler called
Take(c) ==
    /\ ~crashed
    /\ UNCHANGED outsideConsume
    /\ pc[c] = "select"
    /\ message[c] # <<>>
    /\ cur' = [cur EXCEPT ![c] = Head(message[c])]
    /\ message' = [message EXCEPT ![c] = Tail(@)]
    /\ messagesReceivedCount' = messagesReceivedCount + 1
    /\ handlerRuns' = [handlerRuns EXCEPT ![c] = @ + 1]
    /\ pc' = [pc EXCEPT ![c] = "handler"]
    /\ UNCHANGED <<mutex, cancelled, panicking, ackState, outcome, messagesProcessedCount, failedAt>>
    /\ UNCHANGED <<chanVars, callerVars, recvVars, crashed>>

\* faulty variant of HandlerNil: the processed counter is not bumped
HandlerNilNoCount(c) ==
    /\ ~crashed
    /\ UNCHANGED outsideConsume
    /\ pc[c] = "handler"
    /\ ackState' = SetAck(cur[c], "ack")
    /\ outcome' = [outcome EXCEPT ![cur[c]] = "nil"]
    /\ cur' = [cur EXCEPT ![c] = 0]
    /\ pc' = [pc EXCEPT ![c] = "select"]
    /\ UNCHANGED <<mutex, cancelled, message, panicking, countVars>>
    /\ UNCHANGED <<chanVars, callerVars, recvVars, crashed>>

\* the handler returns nil: processed counter, msg.Ack(), next iteration
HandlerNil(c) ==
    /\ ~crashed
    /\ UNCHANGED outsideConsume
    /\ pc[c] = "handler"
    /\ messagesProcessedCount' = messagesProcessedCount + 1
    /\ ackState' = SetAck(cur[c], "ack")
    /\ outcome' = [outcome EXCEPT ![cur[c]] = "nil"]
    /\ cur' = [cur EXCEPT ![c] = 0]
    /\ pc' = [pc EXCEPT ![c] = "select"]
    /\ UNCHANGED <<mutex, cancelled, message, panicking, messagesReceivedCount, handlerRuns, failedAt>>
    /\ UNCHANGED <<chanVars, callerVars, recvVars, crashed>>

\* faulty variant of HandlerErr: the error is reported and the message nacked,
\* but the loop goes on instead of returning
HandlerErrContinue(c) ==
    /\ ~crashed
    /\ UNCHANGED outsideConsume
    /\ pc[c] = "handler"
    /\ failedAt' = [failedAt EXCEPT ![c] = handlerRuns[c]]
    /\ ackState' = SetAck(cur[c], "nack")
    /\ outcome' = [outcome EXCEPT ![cur[c]] = "err"]
    /\ cur' = [cur EXCEPT ![c] = 0]
    /\ pc' = [pc EXCEPT ![c] = "select"]
    /\ errBuf' = [errBuf EXCEPT ![c] = IF Len(@) < ErrChanCap THEN Append(@, HandlerError) ELSE @]
    /\ sent' = [sent EXCEPT ![c] = IF Len(errBuf[c]) < ErrChanCap THEN Append(@, HandlerError) ELSE @]
    /\ UNCHANGED <<mutex, cancelled, message, panicking>>
    /\ UNCHANGED <<errClosed, closeCount, removed, checkSaw>>
    /\ UNCHANGED <<callerVars, recvVars, crashed>>
    /\ UNCHANGED <<messagesReceivedCount, messagesProcessedCount, handlerRuns>>

\* the handler returns an error: the call goes on to errChan <- err
HandlerErr(c) ==
    /\ ~crashed
    /\ UNCHANGED outsideConsume
    /\ pc[c] = "handler"
    /\ failedAt' = [failedAt EXCEPT ![c] = handlerRuns[c]]
    /\ outcome' = [outcome EXCEPT ![cur[c]] = "err"]
    /\ pc' = [pc EXCEPT ![c] = "send"]
    /\ UNCHANGED <<mutex, cancelled, message, cur, panicking, ackState>>
    /\ UNCHANGED <<chanVars, callerVars, recvVars, crashed>>
    /\ UNCHANGED <<messagesReceivedCount, messagesProcessedCount, handlerRuns>>

\* the handler panics: nothing recovers it, so the deferred Unlock and
\* close(errChan) run while the panic unwinds Consume
HandlerPanic(c) ==
    /\ ~crashed
    /\ UNCHANGED outsideConsume
    /\ pc[c] = "handler"
    /\ panicking' = [panicking EXCEPT ![c] = TRUE]
    /\ outcome' = [outcome EXCEPT ![cur[c]] = "panic"]
    /\ pc' = [pc EXCEPT ![c] = "unlock"]
    /\ UNCHANGED <<mutex, cancelled, message, cur, ackState>>
    /\ UNCHANGED <<chanVars, callerVars, recvVars, countVars, crashed>>

\* errChan <- err in the loop: blocks while errChan is full
SendHandlerErr(c) ==
    /\ ~crashed
    /\ UNCHANGED outsideConsume
    /\ pc[c] = "send"
    /\ Len(errBuf[c]) < ErrChanCap
    /\ errBuf' = [errBuf EXCEPT ![c] = Append(@, HandlerError)]
    /\ sent' = [sent EXCEPT ![c] = Append(@, HandlerError)]
    /\ pc' = [pc EXCEPT ![c] = "nack"]
    /\ UNCHANGED <<mutex, cancelled, message, cur, panicking, ackState, outcome>>
    /\ UNCHANGED <<errClosed, closeCount, removed, checkSaw>>
    /\ UNCHANGED <<callerVars, recvVars, countVars, crashed>>

\* faulty variant of NackReturn: the failed message is acked
NackReturnAcks(c) ==
    /\ ~crashed
    /\ UNCHANGED outsideConsume
    /\ pc[c] = "nack"
    /\ ackState' = SetAck(cur[c], "ack")
    /\ cur' = [cur EXCEPT ![c] = 0]
    /\ pc' = [pc EXCEPT ![c] = "unlock"]
    /\ UNCHANGED <<mutex, cancelled, message, panicking, outcome>>
    /\ UNCHANGED <<chanVars, callerVars, recvVars, countVars, crashed>>

\* msg.Nack(); return
NackReturn(c) ==
    /\ ~crashed
    /\ UNCHANGED outsideConsume
    /\ pc[c] = "nack"
    /\ ackState' = SetAck(cur[c], "nack")
    /\ cur' = [cur EXCEPT ![c] = 0]
    /\ pc' = [pc EXCEPT ![c] = "unlock"]
    /\ UNCHANGED <<mutex, cancelled, message, panicking, outcome>>
    /\ UNCHANGED <<chanVars, callerVars, recvVars, countVars, crashed>>

\* faulty variant of CtxDone: the cancellation is reported on errChan
CtxDoneSendsErr(c) ==
    /\ ~crashed
    /\ UNCHANGED outsideConsume
    /\ pc[c] = "select"
    /\ cancelled[c]
    /\ Len(errBuf[c]) < ErrChanCap
    /\ errBuf' = [errBuf EXCEPT ![c] = Append(@, "context canceled")]
    /\ sent' = [sent EXCEPT ![c] = Append(@, "context canceled")]
    /\ pc' = [pc EXCEPT ![c] = "unlock"]
    /\ UNCHANGED <<mutex, cancelled, message, cur, panicking, ackState, outcome>>
    /\ UNCHANGED <<errClosed, closeCount, removed, checkSaw>>
    /\ UNCHANGED <<callerVars, recvVars, countVars, crashed>>

\* select case <-ctx.Done(): return
CtxDone(c) ==
    /\ ~crashed
    /\ UNCHANGED outsideConsume
    /\ pc[c] = "select"
    /\ cancelled[c]
    /\ pc' = [pc EXCEPT ![c] = "unlock"]
    /\ UNCHANGED <<mutex, cancelled, message, cur, panicking, ackState, outcome>>
    /\ UNCHANGED <<chanVars, callerVars, recvVars, countVars, crashed>>

\* faulty variant of Unlock: the lock is also released while the handler runs
UnlockEarly(c) ==
    /\ ~crashed
    /\ UNCHANGED outsideConsume
    /\ pc[c] \in {"unlock", "handler"}
    /\ mutex' = 0
    /\ pc' = [pc EXCEPT ![c] = IF @ = "unlock" THEN "close" ELSE @]
    /\ UNCHANGED <<cancelled, message, cur, panicking, ackState, outcome>>
    /\ UNCHANGED <<chanVars, callerVars, recvVars, countVars, crashed>>

\* faulty variant of Unlock: the deferred call leaves the mutex held
UnlockKeeps(c) ==
    /\ ~crashed
    /\ UNCHANGED outsideConsume
    /\ pc[c] = "unlock"
    /\ pc' = [pc EXCEPT ![c] = "close"]
    /\ UNCHANGED <<mutex, cancelled, message, cur, panicking, ackState, outcome>>
    /\ UNCHANGED <<chanVars, callerVars, recvVars, countVars, crashed>>

\* deferred s.mutex.Unlock(): registered last, so it runs first
Unlock(c) ==
    /\ ~crashed
    /\ UNCHANGED outsideConsume
    /\ pc[c] = "unlock"
    /\ mutex' = 0
    /\ pc' = [pc EXCEPT ![c] = "close"]
    /\ UNCHANGED <<cancelled, message, cur, panicking, ackState, outcome>>
    /\ UNCHANGED <<chanVars, callerVars, recvVars, countVars, crashed>>

\* faulty variant of CloseErrChan: the call returns without closing errChan
ReturnNoClose(c) ==
    /\ ~crashed
    /\ UNCHANGED outsideConsume
    /\ pc[c] = "close"
    /\ pc' = [pc EXCEPT ![c] = IF panicking[c] THEN "panicked" ELSE "returned"]
    /\ UNCHANGED <<mutex, cancelled, message, cur, panicking, ackState, outcome>>
    /\ UNCHANGED <<chanVars, callerVars, recvVars, countVars, crashed>>

\* deferred close(errChan): registered first, so it runs last; then the call
\* returns, or the panic leaves Consume
CloseErrChan(c) ==
    /\ ~crashed
    /\ UNCHANGED outsideConsume
    /\ pc[c] = "close"
    /\ errClosed' = [errClosed EXCEPT ![c] = TRUE]
    /\ closeCount' = [closeCount EXCEPT ![c] = @ + 1]
    /\ pc' = [pc EXCEPT ![c] = IF panicking[c] THEN "panicked" ELSE "returned"]
    /\ UNCHANGED <<mutex, cancelled, message, cur, panicking, ackState, outcome>>
    /\ UNCHANGED <<errBuf, sent, removed, checkSaw>>
    /\ UNCHANGED <<callerVars, recvVars, countVars, crashed>>

\* ------------------------------------------------- receive goroutine
\* Receive starts the callback of the next message
Deliver(c) ==
    /\ ~crashed
    /\ UNCHANGED outsideConsume
    /\ gr[c] = "receiving"
    /\ ~cancelled[c]
    /\ ~recvFailed[c]
    /\ nextMsg <= MaxMsgs
    /\ pending' = [pending EXCEPT ![c] = @ \cup {nextMsg}]
    /\ nextMsg' = nextMsg + 1
    /\ UNCHANGED <<pc, mutex, cancelled, message, cur, panicking, ackState, outcome>>
    /\ UNCHANGED <<chanVars, callerVars, gr, recvFailed, countVars, crashed>>

\* the callback: message <- msg, blocks while the channel is full
CallbackSend(c, m) ==
    /\ ~crashed
    /\ UNCHANGED outsideConsume
    /\ m \in pending[c]
    /\ Len(message[c]) < MessageChanCap
    /\ message' = [message EXCEPT ![c] = Append(@, m)]
    /\ pending' = [pending EXCEPT ![c] = @ \ {m}]
    /\ UNCHANGED <<pc, mutex, cancelled, cur, panicking, ackState, outcome>>
    /\ UNCHANGED <<chanVars, callerVars, gr, recvFailed, nextMsg, countVars, crashed>>

\* the transport breaks: Receive stops pulling and is going to return the error
ReceiveFail(c) ==
    /\ ~crashed
    /\ UNCHANGED outsideConsume
    /\ gr[c] = "receiving"
    /\ ~cancelled[c]
    /\ ~recvFailed[c]
    /\ recvFailed' = [recvFailed EXCEPT ![c] = TRUE]
    /\ UNCHANGED <<pc, mutex, cancelled, message, cur, panicking, ackState, outcome>>
    /\ UNCHANGED <<chanVars, callerVars, gr, pending, nextMsg, countVars, crashed>>

\* err := Receive(...): Receive returns after every outstanding callback has
\* returned, with the transport error, or with nil when ctx is done
ReceiveReturn(c) ==
    /\ ~crashed
    /\ UNCHANGED outsideConsume
    /\ gr[c] = "receiving"
    /\ cancelled[c] \/ recvFailed[c]
    /\ pending[c] = {}
    /\ gr' = [gr EXCEPT ![c] = IF recvFailed[c] THEN "check" ELSE "done"]
    /\ UNCHANGED <<pc, mutex, cancelled, message, cur, panicking, ackState, outcome>>
    /\ UNCHANGED <<chanVars, callerVars, recvFailed, pending, nextMsg, countVars, crashed>>

\* select { case <-errChan: return }: ready when errChan is closed, and also
\* when it holds a value, which the receive takes off the channel
GrCheckRecv(c) ==
    /\ ~crashed
    /\ UNCHANGED outsideConsume
    /\ gr[c] = "check"
    /\ errBuf[c] # <<>> \/ errClosed[c]
    /\ IF errBuf[c] # <<>>
          THEN /\ removed' = [removed EXCEPT ![c] = Append(@, Head(errBuf[c]))]
               /\ errBuf' = [errBuf EXCEPT ![c] = Tail(@)]
               /\ checkSaw' = [checkSaw EXCEPT ![c] =
                                  IF errClosed[c] THEN "closed" ELSE "value"]
          ELSE /\ UNCHANGED <<removed, errBuf>>
               /\ checkSaw' = [checkSaw EXCEPT ![c] = "closed"]
    /\ gr' = [gr EXCEPT ![c] = "done"]
    /\ UNCHANGED <<pc, mutex, cancelled, message, cur, panicking, ackState, outcome>>
    /\ UNCHANGED <<errClosed, closeCount, sent>>
    /\ UNCHANGED <<callerVars, recvFailed, pending, nextMsg, countVars, crashed>>

\* select { default: }: errChan is open and empty
GrCheckDefault(c) ==
    /\ ~crashed
    /\ UNCHANGED outsideConsume
    /\ gr[c] = "check"
    /\ errBuf[c] = <<>>
    /\ ~errClosed[c]
    /\ checkSaw' = [checkSaw EXCEPT ![c] = "open"]
    /\ gr' = [gr EXCEPT ![c] = "send"]
    /\ UNCHANGED <<pc, mutex, cancelled, message, cur, panicking, ackState, outcome>>
    /\ UNCHANGED <<errBuf, errClosed, closeCount, sent, removed>>
    /\ UNCHANGED <<callerVars, recvFailed, pending, nextMsg, countVars, crashed>>

\* errChan <- err in the goroutine: a send on a closed channel panics, and a
\* panic in this goroutine ends the process
GrSend(c) ==
    /\ ~crashed
    /\ UNCHANGED outsideConsume
    /\ gr[c] = "send"
    /\ \/ /\ errClosed[c]
          /\ crashed' = TRUE
          /\ gr' = [gr EXCEPT ![c] = "panic"]
          /\ UNCHANGED <<errBuf, sent>>
       \/ /\ ~errClosed[c]
          /\ Len(errBuf[c]) < ErrChanCap
          /\ errBuf' = [errBuf EXCEPT ![c] = Append(@, ReceiveError)]
          /\ sent' = [sent EXCEPT ![c] = Append(@, ReceiveError)]
          /\ gr' = [gr EXCEPT ![c] = "done"]
          /\ UNCHANGED crashed
    /\ UNCHANGED <<pc, mutex, cancelled, message, cur, panicking, ackState, outcome>>
    /\ UNCHANGED <<errClosed, closeCount, removed, checkSaw>>
    /\ UNCHANGED <<callerVars, recvFailed, pending, nextMsg, countVars>>

\* ------------------------------------------------------- environment
\* the caller cancels the ctx it passed to the call
Cancel(c) ==
    /\ ~crashed
    /\ UNCHANGED outsideConsume
    /\ pc[c] # "idle"
    /\ ~Finished(c)
    /\ ~cancelled[c]
    /\ cancelled' = [cancelled EXCEPT ![c] = TRUE]
    /\ UNCHANGED <<pc, mutex, message, cur, panicking, ackState, outcome>>
    /\ UNCHANGED <<chanVars, callerVars, recvVars, countVars, crashed>>

\* the caller's loop: for e := range errChan takes the next error; the loop
\* ends once errChan is closed and drained (RangeEnded)
ReaderRecv(c) ==
    /\ ~crashed
    /\ UNCHANGED outsideConsume
    /\ pc[c] # "idle"
    /\ errBuf[c] # <<>>
    /\ got' = [got EXCEPT ![c] = Append(@, Head(errBuf[c]))]
    /\ errBuf' = [errBuf EXCEPT ![c] = Tail(@)]
    /\ UNCHANGED <<pc, mutex, cancelled, message, cur, panicking, ackState, outcome>>
    /\ UNCHANGED <<errClosed, closeCount, sent, removed, checkSaw>>
    /\ UNCHANGED <<runningAtCall, recvVars, countVars, crashed>>

\* ------------------------------------------------------------- Spec
ConsumeStep(c) ==
    \/ Call(c)
    \/ Lock(c)
    \/ Take(c)
    \/ HandlerNil(c)
    \/ HandlerErr(c)
    \/ HandlerPanic(c)
    \/ SendHandlerErr(c)
    \/ NackReturn(c)
    \/ CtxDone(c)
    \/ Unlock(c)
    \/ CloseErrChan(c)

GoroutineStep(c) ==
    \/ ReceiveReturn(c)
    \/ GrCheckRecv(c)
    \/ GrCheckDefault(c)
    \/ GrSend(c)

\* every step of the calls in S, of their receive goroutines, of the library
\* under them and of their callers
NextOf(S) ==
    \/ \E c \in S : Call(c)
    \/ \E c \in S : Lock(c)
    \/ \E c \in S : Take(c)
    \/ \E c \in S : HandlerNil(c)
    \/ \E c \in S : HandlerErr(c)
    \/ \E c \in S : HandlerPanic(c)
    \/ \E c \in S : SendHandlerErr(c)
    \/ \E c \in S : NackReturn(c)
    \/ \E c \in S : CtxDone(c)
    \/ \E c \in S : Unlock(c)
    \/ \E c \in S : CloseErrChan(c)
    \/ \E c \in S : Deliver(c)
    \/ \E c \in S, m \in Msgs : CallbackSend(c, m)
    \/ \E c \in S : ReceiveFail(c)
    \/ \E c \in S : ReceiveReturn(c)
    \/ \E c \in S : GrCheckRecv(c)
    \/ \E c \in S : GrCheckDefault(c)
    \/ \E c \in S : GrSend(c)
    \/ \E c \in S : Cancel(c)
    \/ \E c \in S : ReaderRecv(c)

\* The Go scheduler runs every goroutine that can take a step: the calls, the
\* receive goroutines, the library's callbacks and the callers' range loops.
\* Cancel and ReceiveFail are left to the environment and carry no fairness;
\* neither does Deliver (the subscription may hold no further message).
FairnessOf(S) ==
    \A c \in S :
        /\ WF_vars(ConsumeStep(c))
        /\ WF_vars(GoroutineStep(c))
        /\ WF_vars(\E m \in Msgs : CallbackSend(c, m))
        /\ WF_vars(ReaderRecv(c))

\* NumCalls calls of Consume on the Subscriber, in any interleaving
Next == NextOf(Calls)
Spec == Init /\ [][Next]_vars
FairSpec == Spec /\ FairnessOf(Calls)

\* one call of Consume on the Subscriber
NextSolo == NextOf({1})
SoloSpec == Init /\ [][NextSolo]_vars
FairSoloSpec == SoloSpec /\ FairnessOf({1})

\* NumCalls calls competing for the lock, with a transport that never breaks:
\* the steps left out (ReceiveFail and the goroutine's error path, the
\* caller's range loop) touch neither the mutex nor the loop.
NextLock ==
    \/ \E c \in Calls : Call(c)
    \/ \E c \in Calls : Lock(c)
    \/ \E c \in Calls : Take(c)
    \/ \E c \in Calls : HandlerNil(c)
    \/ \E c \in Calls : HandlerErr(c)
    \/ \E c \in Calls : HandlerPanic(c)
    \/ \E c \in Calls : SendHandlerErr(c)
    \/ \E c \in Calls : NackReturn(c)
    \/ \E c \in Calls : CtxDone(c)
    \/ \E c \in Calls : Unlock(c)
    \/ \E c \in Calls : CloseErrChan(c)
    \/ \E c \in Calls : Deliver(c)
    \/ \E c \in Calls, m \in Msgs : CallbackSend(c, m)
    \/ \E c \in Calls : ReceiveReturn(c)
    \/ \E c \in Calls : Cancel(c)
LockSpec == Init /\ [][NextLock]_vars
\* the Go scheduler runs every call that can take a step
FairLockSpec == LockSpec /\ \A c \in Calls : WF_vars(ConsumeStep(c))

\* Consume is called again once the previous call has returned
CallAfterReturn(c) ==
    /\ IF c = 1 THEN TRUE ELSE Finished(c - 1)
    /\ Call(c)
\* the steps of a call that has been made
RunStep(c) == pc[c] # "idle" /\ ConsumeStep(c)
\* NumCalls successive calls of Consume, each made after the previous one has
\* returned, with a transport that never breaks; the receive goroutine and
\* the callbacks of an earlier call go on running
NextSuccessive ==
    \/ \E c \in Calls : CallAfterReturn(c)
    \/ \E c \in Calls : Lock(c)
    \/ \E c \in Calls : Take(c)
    \/ \E c \in Calls : HandlerNil(c)
    \/ \E c \in Calls : HandlerErr(c)
    \/ \E c \in Calls : HandlerPanic(c)
    \/ \E c \in Calls : SendHandlerErr(c)
    \/ \E c \in Calls : NackReturn(c)
    \/ \E c \in Calls : CtxDone(c)
    \/ \E c \in Calls : Unlock(c)
    \/ \E c \in Calls : CloseErrChan(c)
    \/ \E c \in Calls : Deliver(c)
    \/ \E c \in Calls, m \in Msgs : CallbackSend(c, m)
    \/ \E c \in Calls : ReceiveReturn(c)
    \/ \E c \in Calls : Cancel(c)
SuccessiveSpec == Init /\ [][NextSuccessive]_vars
FairSuccessiveSpec == SuccessiveSpec /\ \A c \in Calls : WF_vars(RunStep(c))

\* ------------------------------------------------------ NewSubscriber
\* NewSubscriber returns (subscriber, err): the call is logged, with the topics
\* the remote held, and is over
CtorReturn(given, cfg, subscriberName, err) ==
    /\ ctorLog' = Append(ctorLog, [given |-> given, cfg |-> cfg,
                                   isNil |-> err # NoErr,
                                   subscriber |-> subscriberName,
                                   err |-> err,
                                   calls |-> ctorCalls',
                                   injected |-> ctorInjected',
                                   topics |-> rTopics])
    /\ ctorPc' = "idle"

\* faulty variant of NewSubscriber: cfg.Validate() is not consulted
NewSubscriberNoValidate(cfg) ==
    /\ ctorPc = "idle"
    /\ Len(ctorLog) < MaxCtorCalls
    /\ ctorGiven' = cfg
    /\ ctorCfg' = cfg
    /\ ctorCalls' = <<>>
    /\ ctorInjected' = FALSE
    /\ topicRes' = Pending
    /\ subRes' = SubResult(NoSub, Pending)
    /\ IF ~cfg.present
          THEN /\ validateErr' = Pending
               /\ CtorReturn(cfg, cfg, "", Err("config is not set", ""))
          ELSE /\ validateErr' = Validate(cfg)
               /\ ctorPc' = "getTopic"
               /\ UNCHANGED ctorLog
    /\ UNCHANGED <<rTopics, rSubs>>
    /\ UNCHANGED outsideCtor

\* NewSubscriber(ctx, client, cfg) up to its first remote call: the nil check
\* and cfg.Validate()
NewSubscriber(cfg) ==
    /\ ctorPc = "idle"
    /\ Len(ctorLog) < MaxCtorCalls
    /\ ctorGiven' = cfg
    /\ ctorCfg' = cfg
    /\ ctorCalls' = <<>>
    /\ ctorInjected' = FALSE
    /\ topicRes' = Pending
    /\ subRes' = SubResult(NoSub, Pending)
    /\ IF ~cfg.present
          THEN /\ validateErr' = Pending
               /\ CtorReturn(cfg, cfg, "", Err("config is not set", ""))
          ELSE /\ validateErr' = Validate(cfg)
               /\ IF Validate(cfg) # NoErr
                     THEN CtorReturn(cfg, cfg, "", Validate(cfg))
                     ELSE /\ ctorPc' = "getTopic"
                          /\ UNCHANGED ctorLog
    /\ UNCHANGED <<rTopics, rSubs>>
    /\ UNCHANGED outsideCtor

\* NewSubscriberWithDefaults(ctx, client, subscriptionID, topicName): builds
\* the config and delegates to NewSubscriber
NewSubscriberWithDefaults(subscriptionID, topicName) ==
    NewSubscriber(DefaultsConfig(subscriptionID, topicName))

\* faulty variant of EnsureTopicGet: a NotFound failure of GetTopic leads to
\* CreateTopic instead of being returned
EnsureTopicGetCreatesOnNotFound(o) ==
    /\ ctorPc = "getTopic"
    /\ o = GetTopicAnswer(ctorCfg.spec.topic) \/ o \in ErrorCodes \cup {"empty"}
    /\ ctorCalls' = Append(ctorCalls, RemoteCall("GetTopic", ctorCfg.spec, o))
    /\ ctorInjected' = (ctorInjected \/ o # GetTopicAnswer(ctorCfg.spec.topic))
    /\ CASE o \in ErrorCodes \ {"NotFound"} ->
              /\ topicRes' = RemoteErr(o, "GetTopic")
              /\ CtorReturn(ctorGiven, ctorCfg, "", RemoteErr(o, "GetTopic"))
              /\ UNCHANGED ctorCfg
         [] o \in {"empty", "NotFound"} ->
              /\ ctorPc' = "createTopic"
              /\ UNCHANGED <<topicRes, ctorCfg, ctorLog>>
         [] o = "ok" ->
              /\ topicRes' = NoErr
              /\ ctorCfg' = applyDefaults(ctorCfg)
              /\ ctorPc' = "createSub"
              /\ UNCHANGED ctorLog
    /\ UNCHANGED <<ctorGiven, validateErr, subRes, rTopics, rSubs>>
    /\ UNCHANGED outsideCtor

\* ensureTopic: client.TopicAdminClient.GetTopic and what follows its answer
EnsureTopicGet(o) ==
    /\ ctorPc = "getTopic"
    /\ o = GetTopicAnswer(ctorCfg.spec.topic) \/ o \in ErrorCodes \cup {"empty"}
    /\ ctorCalls' = Append(ctorCalls, RemoteCall("GetTopic", ctorCfg.spec, o))
    /\ ctorInjected' = (ctorInjected \/ o # GetTopicAnswer(ctorCfg.spec.topic))
    /\ CASE o \in ErrorCodes ->
              /\ topicRes' = RemoteErr(o, "GetTopic")
              /\ CtorReturn(ctorGiven, ctorCfg, "", RemoteErr(o, "GetTopic"))
              /\ UNCHANGED ctorCfg
         [] o = "empty" ->
              /\ ctorPc' = "createTopic"
              /\ UNCHANGED <<topicRes, ctorCfg, ctorLog>>
         [] o = "ok" ->
              /\ topicRes' = NoErr
              /\ ctorCfg' = applyDefaults(ctorCfg)
              /\ ctorPc' = "createSub"
              /\ UNCHANGED ctorLog
    /\ UNCHANGED <<ctorGiven, validateErr, subRes, rTopics, rSubs>>
    /\ UNCHANGED outsideCtor

\* ensureTopic: client.TopicAdminClient.CreateTopic and what follows its answer
EnsureTopicCreate(o) ==
    /\ ctorPc = "createTopic"
    /\ o = CreateTopicAnswer(ctorCfg.spec.topic) \/ o \in ErrorCodes \cup {"empty"}
    /\ ctorCalls' = Append(ctorCalls, RemoteCall("CreateTopic", ctorCfg.spec, o))
    /\ ctorInjected' = (ctorInjected \/ o # CreateTopicAnswer(ctorCfg.spec.topic))
    /\ CASE o \in ErrorCodes ->
              /\ topicRes' = RemoteErr(o, "CreateTopic")
              /\ CtorReturn(ctorGiven, ctorCfg, "", RemoteErr(o, "CreateTopic"))
              /\ UNCHANGED <<ctorCfg, rTopics>>
         [] o = "empty" ->
              /\ topicRes' = Err("topic %s does not exist", ctorCfg.spec.topic)
              /\ CtorReturn(ctorGiven, ctorCfg, "", Err("topic %s does not exist", ctorCfg.spec.topic))
              /\ UNCHANGED <<ctorCfg, rTopics>>
         [] o = "ok" ->
              /\ rTopics' = rTopics \cup {ctorCfg.spec.topic}
              /\ topicRes' = NoErr
              /\ ctorCfg' = applyDefaults(ctorCfg)
              /\ ctorPc' = "createSub"
              /\ UNCHANGED ctorLog
    /\ UNCHANGED <<ctorGiven, validateErr, subRes, rSubs>>
    /\ UNCHANGED outsideCtor

\* faulty variant of EnsureSubscriptionCreate: an AlreadyExists failure is
\* returned like any other error instead of switching to the update
EnsureSubscriptionCreateNoUpdate(o) ==
    /\ ctorPc = "createSub"
    /\ o = CreateSubscriptionAnswer(ctorCfg.spec) \/ o \in ErrorCodes
    /\ ctorCalls' = Append(ctorCalls, RemoteCall("CreateSubscription", ctorCfg.spec, o))
    /\ ctorInjected' = (ctorInjected \/ o # CreateSubscriptionAnswer(ctorCfg.spec))
    /\ CASE o = "ok" ->
              /\ rSubs' = rSubs \cup {ctorCfg.spec}
              /\ subRes' = SubResult(ctorCfg.spec, NoErr)
              /\ CtorReturn(ctorGiven, ctorCfg, ctorCfg.spec.name, NoErr)
         [] o = "NotFound" ->
              /\ subRes' = SubResult(NoSub, Err("topic %s not found", ctorCfg.spec.topic))
              /\ CtorReturn(ctorGiven, ctorCfg, "", Err("topic %s not found", ctorCfg.spec.topic))
              /\ UNCHANGED rSubs
         [] o \in ErrorCodes \ {"NotFound"} ->
              /\ subRes' = SubResult(NoSub, RemoteErr(o, "CreateSubscription"))
              /\ CtorReturn(ctorGiven, ctorCfg, "", RemoteErr(o, "CreateSubscription"))
              /\ UNCHANGED rSubs
    /\ UNCHANGED <<ctorGiven, ctorCfg, validateErr, topicRes, rTopics>>
    /\ UNCHANGED outsideCtor

\* ensureSubscription: client.SubscriptionAdminClient.CreateSubscription and
\* the switch on the status code of its error; on success NewSubscriber binds
\* the subscriber to sub.GetName() and returns it
EnsureSubscriptionCreate(o) ==
    /\ ctorPc = "createSub"
    /\ o = CreateSubscriptionAnswer(ctorCfg.spec) \/ o \in ErrorCodes
    /\ ctorCalls' = Append(ctorCalls, RemoteCall("CreateSubscription", ctorCfg.spec, o))
    /\ ctorInjected' = (ctorInjected \/ o # CreateSubscriptionAnswer(ctorCfg.spec))
    /\ CASE o = "ok" ->
              /\ rSubs' = rSubs \cup {ctorCfg.spec}
              /\ subRes' = SubResult(ctorCfg.spec, NoErr)
              /\ CtorReturn(ctorGiven, ctorCfg, ctorCfg.spec.name, NoErr)
         [] o = "AlreadyExists" ->
              /\ ctorPc' = "updateSub"
              /\ UNCHANGED <<rSubs, subRes, ctorLog>>
         [] o = "NotFound" ->
              /\ subRes' = SubResult(NoSub, Err("topic %s not found", ctorCfg.spec.topic))
              /\ CtorReturn(ctorGiven, ctorCfg, "", Err("topic %s not found", ctorCfg.spec.topic))
              /\ UNCHANGED rSubs
         [] o \in ErrorCodes \ {"AlreadyExists", "NotFound"} ->
              /\ subRes' = SubResult(NoSub, RemoteErr(o, "CreateSubscription"))
              /\ CtorReturn(ctorGiven, ctorCfg, "", RemoteErr(o, "CreateSubscription"))
              /\ UNCHANGED rSubs
    /\ UNCHANGED <<ctorGiven, ctorCfg, validateErr, topicRes, rTopics>>
    /\ UNCHANGED outsideCtor

\* ensureSubscription: client.SubscriptionAdminClient.UpdateSubscription,
\* whose result is returned as it is
EnsureSubscriptionUpdate(o) ==
    /\ ctorPc = "updateSub"
    /\ o \in UpdateSubscriptionAnswers(UpdateRequest(ctorCfg.spec)) \cup ErrorCodes
    /\ ctorCalls' = Append(ctorCalls, RemoteCall("UpdateSubscription", ctorCfg.spec, o))
    /\ ctorInjected' =
          (ctorInjected \/ o \notin UpdateSubscriptionAnswers(UpdateRequest(ctorCfg.spec)))
    /\ CASE o = "ok" ->
              LET old == CHOOSE r \in rSubs : r.name = ctorCfg.spec.name
                  new == UpdatedSub(old, UpdateRequest(ctorCfg.spec))
              IN  /\ rSubs' = (rSubs \ {old}) \cup {new}
                  /\ subRes' = SubResult(new, NoErr)
                  /\ CtorReturn(ctorGiven, ctorCfg, new.name, NoErr)
         [] o \in ErrorCodes ->
              /\ subRes' = SubResult(NoSub, RemoteErr(o, "UpdateSubscription"))
              /\ CtorReturn(ctorGiven, ctorCfg, "", RemoteErr(o, "UpdateSubscription"))
              /\ UNCHANGED rSubs
    /\ UNCHANGED <<ctorGiven, ctorCfg, validateErr, topicRes, rTopics>>
    /\ UNCHANGED outsideCtor

\* someone creates a topic in the remote state (the tests' mgmt.CreateTopic)
RemoteCreateTopic(t) ==
    /\ t \notin rTopics
    /\ rTopics' = rTopics \cup {t}
    /\ UNCHANGED <<ctorPc, ctorGiven, ctorCfg, validateErr, ctorCalls, ctorInjected,
                   topicRes, subRes, ctorLog, rSubs>>
    /\ UNCHANGED outsideCtor

\* MaxCtorCalls calls of NewSubscriber, one after the other, against a remote
\* state in which topics are created
NextCtor ==
    \/ \E cfg \in SubscriberConfigs : NewSubscriber(cfg)
    \/ \E id \in SubscriptionIDs, t \in TopicNames : NewSubscriberWithDefaults(id, t)
    \/ \E o \in Answers : EnsureTopicGet(o)
    \/ \E o \in Answers : EnsureTopicCreate(o)
    \/ \E o \in Answers : EnsureSubscriptionCreate(o)
    \/ \E o \in Answers : EnsureSubscriptionUpdate(o)
    \/ \E t \in {"t1"} : RemoteCreateTopic(t)
CtorSpec == Init /\ [][NextCtor]_vars

\* ------------------------------------------------------ JobsScheduler
\* Start: under s.mu, quartzScheduler.Start(ctx), then
\* s.started.Store(s.quartzScheduler.IsStarted())
Start ==
    /\ quartzStarted' = TRUE
    /\ started' = TRUE
    /\ phase' = "started"
    /\ UNCHANGED <<jobs, quartzQueue, stopPc, stopRes, lastSchedule, accepted, jobRuns>>
    /\ UNCHANGED outsideSched

\* Stop up to s.mu.Lock(): a scheduler that is not started returns nil
StopCheck ==
    /\ stopPc = "idle"
    /\ IF ~started
          THEN /\ stopRes' = "nil"
               /\ UNCHANGED stopPc
          ELSE /\ stopPc' = "locked"
               /\ stopRes' = "none"
    /\ UNCHANGED <<started, jobs, quartzStarted, quartzQueue, phase, lastSchedule,
                   accepted, jobRuns>>
    /\ UNCHANGED outsideSched

\* Stop under s.mu: quartzScheduler.Clear(), whose error is returned;
\* quartzScheduler.Stop(); s.started.Store(IsStarted()); Wait
StopLocked(o) ==
    /\ stopPc = "locked"
    /\ stopPc' = "idle"
    /\ IF o = "error"
          THEN /\ stopRes' = "error"
               /\ UNCHANGED <<started, quartzStarted, quartzQueue, phase>>
          ELSE /\ quartzQueue' = {}
               /\ quartzStarted' = FALSE
               /\ started' = FALSE
               /\ phase' = "stopped"
               /\ stopRes' = "nil"
    /\ UNCHANGED <<jobs, lastSchedule, accepted, jobRuns>>
    /\ UNCHANGED outsideSched

\* Schedule returns err without having changed anything
ScheduleFails(cronExpression, job, err) ==
    /\ lastSchedule' = ScheduleResult(cronExpression, job, err)
    /\ UNCHANGED <<jobs, quartzQueue, accepted>>

\* Schedule past its checks: the trigger is built and handed to
\* quartzScheduler.ScheduleJob (answer o), then the job is put into s.jobs
ScheduleJob(cronExpression, job, o) ==
    IF ~ValidCron(cronExpression)
       THEN ScheduleFails(cronExpression, job, Err("invalid cron expression", cronExpression))
    ELSE IF o = "error"
       THEN ScheduleFails(cronExpression, job, Err("ScheduleJob", job.id))
    ELSE /\ quartzQueue' = {q \in quartzQueue : q.key # job.id}
                              \cup {[key |-> job.id, job |-> job, cron |-> cronExpression]}
         /\ jobs' = {j \in jobs : j.id # job.id} \cup {job}
         /\ accepted' = accepted \cup {job}
         /\ lastSchedule' = ScheduleResult(cronExpression, job, NoErr)

\* faulty variant of Schedule: s.started is not consulted
ScheduleNoStartedCheck(cronExpression, job, o) ==
    /\ IF \E j \in jobs : j.id = job.id
          THEN ScheduleFails(cronExpression, job, Err("job (%s) is already added", job.id))
          ELSE ScheduleJob(cronExpression, job, o)
    /\ UNCHANGED <<started, quartzStarted, stopPc, stopRes, phase, jobRuns>>
    /\ UNCHANGED outsideSched

\* faulty variant of Schedule: s.jobs is not consulted
ScheduleNoDuplicateCheck(cronExpression, job, o) ==
    /\ IF ~started
          THEN ScheduleFails(cronExpression, job, ErrSchedulerNotStarted)
          ELSE ScheduleJob(cronExpression, job, o)
    /\ UNCHANGED <<started, quartzStarted, stopPc, stopRes, phase, jobRuns>>
    /\ UNCHANGED outsideSched

\* Schedule(ctx, cronExpression, job), under s.mu
Schedule(cronExpression, job, o) ==
    /\ IF ~started
          THEN ScheduleFails(cronExpression, job, ErrSchedulerNotStarted)
       ELSE IF \E j \in jobs : j.id = job.id
          THEN ScheduleFails(cronExpression, job, Err("job (%s) is already added", job.id))
          ELSE ScheduleJob(cronExpression, job, o)
    /\ UNCHANGED <<started, quartzStarted, stopPc, stopRes, phase, jobRuns>>
    /\ UNCHANGED outsideSched

\* the quartz scheduler, while started, runs a job of its queue: job.Run(ctx)
RunJob(job) ==
    /\ quartzStarted
    /\ \E q \in quartzQueue : q.job = job
    /\ jobRuns' = jobRuns \cup {job}
    /\ UNCHANGED <<started, jobs, quartzStarted, quartzQueue, stopPc, stopRes, phase,
                   lastSchedule, accepted>>
    /\ UNCHANGED outsideSched

\* one JobsScheduler on which Start, Stop and Schedule are called in any order
NextSched ==
    \/ Start
    \/ StopCheck
    \/ \E o \in QuartzAnswers : StopLocked(o)
    \/ \E c \in CronExpressions, j \in JobObjects, o \in QuartzAnswers : Schedule(c, j, o)
    \/ \E j \in JobObjects : RunJob(j)
SchedSpec == Init /\ [][NextSched]_vars

\* ------------------------------------------------------------ TxRunner
\* AddQueryBuilder: r.builders = append(r.builders, v)
AddQueryBuilder(v) ==
    /\ txPc = "new"
    /\ Len(builders) < MaxBuilders
    /\ builders' = Append(builders, v)
    /\ UNCHANGED <<queries, txPc, txI, txBuilt, txOps, txErr>>
    /\ UNCHANGED outsideTx

\* Execute is called: the first loop starts
Execute ==
    /\ txPc = "new"
    /\ txPc' = IF builders = <<>> THEN "commit" ELSE "build"
    /\ txI' = 1
    /\ UNCHANGED <<builders, queries, txBuilt, txOps, txErr>>
    /\ UNCHANGED outsideTx

\* first loop of Execute: builder.BuildQuery(); on its error r.tx.Rollback()
\* (answer rb) and return
BuildQuery(rb) ==
    /\ txPc = "build"
    /\ txBuilt' = Append(txBuilt, txI)
    /\ IF builders[txI].build = "error"
          THEN /\ txOps' = Append(txOps, TxOp("rollback", 0))
               /\ txErr' = AfterRollback(TxError("BuildQuery", txI), rb)
               /\ txPc' = "done"
               /\ UNCHANGED <<queries, txI>>
          ELSE /\ queries' = Append(queries, txI)
               /\ IF txI = Len(builders)
                     THEN txPc' = "exec" /\ txI' = 1
                     ELSE txI' = txI + 1 /\ UNCHANGED txPc
               /\ UNCHANGED <<txOps, txErr>>
    /\ UNCHANGED builders
    /\ UNCHANGED outsideTx

\* faulty variant of ExecContext: a failed statement is skipped, without
\* rollback
ExecContextNoRollback(rb) ==
    /\ txPc = "exec"
    /\ txOps' = Append(txOps, TxOp("exec", queries[txI]))
    /\ IF txI = Len(queries)
          THEN txPc' = "commit" /\ UNCHANGED txI
          ELSE txI' = txI + 1 /\ UNCHANGED txPc
    /\ UNCHANGED <<builders, queries, txBuilt, txErr>>
    /\ UNCHANGED outsideTx

\* second loop of Execute: r.tx.ExecContext of the next query; on its error
\* r.tx.Rollback() (answer rb) and return
ExecContext(rb) ==
    /\ txPc = "exec"
    /\ IF builders[queries[txI]].exec = "error"
          THEN /\ txOps' = txOps \o <<TxOp("exec", queries[txI]), TxOp("rollback", 0)>>
               /\ txErr' = AfterRollback(TxError("ExecContext", queries[txI]), rb)
               /\ txPc' = "done"
               /\ UNCHANGED txI
          ELSE /\ txOps' = Append(txOps, TxOp("exec", queries[txI]))
               /\ IF txI = Len(queries)
                     THEN txPc' = "commit" /\ UNCHANGED txI
                     ELSE txI' = txI + 1 /\ UNCHANGED txPc
               /\ UNCHANGED txErr
    /\ UNCHANGED <<builders, queries, txBuilt>>
    /\ UNCHANGED outsideTx

\* return r.tx.Commit()
Commit(o) ==
    /\ txPc = "commit"
    /\ txOps' = Append(txOps, TxOp("commit", 0))
    /\ txErr' = IF o = "error" THEN TxError("Commit", 0) ELSE TxNil
    /\ txPc' = "done"
    /\ UNCHANGED <<builders, queries, txI, txBuilt>>
    /\ UNCHANGED outsideTx

\* one TxRunner: up to MaxBuilders builders are added, then Execute runs
NextTx ==
    \/ \E v \in QueryBuilders : AddQueryBuilder(v)
    \/ Execute
    \/ \E rb \in TxAnswers : BuildQuery(rb)
    \/ \E rb \in TxAnswers : ExecContext(rb)
    \/ \E o \in TxAnswers : Commit(o)
TxSpec == Init /\ [][NextTx]_vars

\* --------------------------------------------------------------- Future
\* the goroutine of New: the task returns r, comp.Success or comp.Failure
\* calls future.complete, whose completeOnce sends the result on done
TaskReturns(r) ==
    /\ taskState = "running"
    /\ taskState' = r
    /\ IF ~completeOnce
          THEN /\ Len(futureDone) < 1
               /\ futureDone' = Append(futureDone, DoneItem(r))
               /\ completeOnce' = TRUE
               /\ completions' = completions + 1
          ELSE UNCHANGED <<futureDone, completeOnce, completions>>
    /\ UNCHANGED <<acceptOnce, futureValue, futureErr, awaitPc, ctxCancelled, awaitRes>>
    /\ UNCHANGED outsideFuture

\* return x.value, x.err
AwaitReturns(a, value, err) ==
    /\ awaitPc' = [awaitPc EXCEPT ![a] = "returned"]
    /\ awaitRes' = [awaitRes EXCEPT ![a] =
                       AwaitResult(value, err, taskState # "running", ctxCancelled[a])]

\* Await(ctx) is called: x.wait(ctx) enters acceptOnce.Do, which runs the
\* select in the first caller, blocks a caller that arrives while it runs,
\* and does nothing once it has run
Await(a) ==
    /\ awaitPc[a] = "idle"
    /\ CASE acceptOnce = "idle" ->
              /\ acceptOnce' = "running"
              /\ awaitPc' = [awaitPc EXCEPT ![a] = "select"]
              /\ UNCHANGED awaitRes
         [] acceptOnce = "running" ->
              /\ awaitPc' = [awaitPc EXCEPT ![a] = "once"]
              /\ UNCHANGED <<acceptOnce, awaitRes>>
         [] acceptOnce = "done" ->
              /\ AwaitReturns(a, futureValue, futureErr)
              /\ UNCHANGED acceptOnce
    /\ UNCHANGED <<taskState, completeOnce, completions, futureDone, futureValue,
                   futureErr, ctxCancelled>>
    /\ UNCHANGED outsideFuture

\* select case result := <-x.done: x.setResult(result), and Await returns
SelectDone(a) ==
    /\ awaitPc[a] = "select"
    /\ futureDone # <<>>
    /\ futureDone' = Tail(futureDone)
    /\ IF Head(futureDone).isError
          THEN futureErr' = Head(futureDone).v /\ UNCHANGED futureValue
          ELSE futureValue' = Head(futureDone).v /\ UNCHANGED futureErr
    /\ acceptOnce' = "done"
    /\ AwaitReturns(a, futureValue', futureErr')
    /\ UNCHANGED <<taskState, completeOnce, completions, ctxCancelled>>
    /\ UNCHANGED outsideFuture

\* select case <-ctx.Done(): x.setResult(ctx.Err()), and Await returns
SelectCtxDone(a) ==
    /\ awaitPc[a] = "select"
    /\ ctxCancelled[a]
    /\ futureErr' = ContextCanceled
    /\ acceptOnce' = "done"
    /\ AwaitReturns(a, futureValue, futureErr')
    /\ UNCHANGED <<taskState, completeOnce, completions, futureDone, futureValue,
                   ctxCancelled>>
    /\ UNCHANGED outsideFuture

\* a caller blocked in acceptOnce.Do goes on once the first caller's Do is
\* over, and Await returns
OnceReturn(a) ==
    /\ awaitPc[a] = "once"
    /\ acceptOnce = "done"
    /\ AwaitReturns(a, futureValue, futureErr)
    /\ UNCHANGED <<taskState, completeOnce, completions, acceptOnce, futureDone,
                   futureValue, futureErr, ctxCancelled>>
    /\ UNCHANGED outsideFuture

\* the caller cancels the ctx of its Await call
CancelCtx(a) ==
    /\ awaitPc[a] # "returned"
    /\ ~ctxCancelled[a]
    /\ ctxCancelled' = [ctxCancelled EXCEPT ![a] = TRUE]
    /\ UNCHANGED <<taskState, completeOnce, completions, acceptOnce, futureDone,
                   futureValue, futureErr, awaitPc, awaitRes>>
    /\ UNCHANGED outsideFuture

\* one Future, its task, and NumAwaits Await calls in any interleaving
NextFuture ==
    \/ \E r \in TaskResults : TaskReturns(r)
    \/ \E a \in Awaits : Await(a)
    \/ \E a \in Awaits : SelectDone(a)
    \/ \E a \in Awaits : SelectCtxDone(a)
    \/ \E a \in Awaits : OnceReturn(a)
    \/ \E a \in Awaits : CancelCtx(a)
FutureSpec == Init /\ [][NextFuture]_vars

\* ------------------------------------------------------------ Publisher
\* Publish(ctx, topic, messages) is called: under p.mutex the topic handle is
\* made and t.EnableMessageOrdering set from topic.EnableOrdering
Publish(enableOrdering, batch) ==
    /\ publishPc = "idle"
    /\ enableMessageOrdering' = enableOrdering
    /\ messages' = batch
    /\ publishI' = 1
    /\ publishPc' = "publish"
    /\ UNCHANGED <<results, resultErrors, publishErr>>
    /\ UNCHANGED outsidePublish

\* first loop of Publish, one message: with ordering on, an empty key
\* returns the error; otherwise the message is handed to t.Publish
PublishMessage ==
    /\ publishPc = "publish"
    /\ publishI <= Len(messages)
    /\ IF enableMessageOrdering /\ messages[publishI] = ""
          THEN /\ publishErr' = KeyRequired
               /\ publishPc' = "done"
               /\ UNCHANGED <<results, publishI>>
          ELSE /\ results' = Append(results, publishI)
               /\ publishI' = publishI + 1
               /\ UNCHANGED <<publishErr, publishPc>>
    /\ UNCHANGED <<enableMessageOrdering, messages, resultErrors>>
    /\ UNCHANGED outsidePublish

\* the first loop is over: the second loop starts
PublishedAll ==
    /\ publishPc = "publish"
    /\ publishI > Len(messages)
    /\ publishPc' = "get"
    /\ publishI' = 1
    /\ UNCHANGED <<enableMessageOrdering, messages, results, resultErrors, publishErr>>
    /\ UNCHANGED outsidePublish

\* second loop of Publish, one result: res.Get(ctx), whose error is kept
GetResult(o) ==
    /\ publishPc = "get"
    /\ publishI <= Len(results)
    /\ resultErrors' = IF o = "error" THEN Append(resultErrors, results[publishI])
                       ELSE resultErrors
    /\ publishI' = publishI + 1
    /\ UNCHANGED <<publishPc, enableMessageOrdering, messages, results, publishErr>>
    /\ UNCHANGED outsidePublish

\* Publish returns the last of the result errors, or nil
PublishReturns ==
    /\ publishPc = "get"
    /\ publishI > Len(results)
    /\ publishErr' = IF resultErrors = <<>> THEN PublishNil
                     ELSE PublishError("unable to publish message to GCP Pub/Sub: %w",
                                       resultErrors[Len(resultErrors)])
    /\ publishPc' = "done"
    /\ UNCHANGED <<enableMessageOrdering, messages, publishI, results, resultErrors>>
    /\ UNCHANGED outsidePublish

\* one Publish call on a batch
NextPublish ==
    \/ \E e \in BOOLEAN, b \in Batches : Publish(e, b)
    \/ PublishMessage
    \/ PublishedAll
    \/ \E o \in GetAnswers : GetResult(o)
    \/ PublishReturns
PublishSpec == Init /\ [][NextPublish]_vars

\* the shape of the state
TypeOK ==
    /\ pc \in [Calls -> {"idle", "lock", "select", "handler", "send", "nack",
                         "unlock", "close", "returned", "panicked"}]
    /\ mutex \in {0} \cup Calls
    /\ gr \in [Calls -> {"none", "receiving", "check", "send", "done", "panic"}]
    /\ \A c \in Calls : Len(message[c]) <= MessageChanCap /\ Len(errBuf[c]) <= ErrChanCap
    /\ ackState \in [Msgs -> {"none", "ack", "nack", "both"}]
    /\ outcome \in [Msgs -> {"none", "nil", "err", "panic"}]
    /\ ctorPc \in {"idle", "getTopic", "createTopic", "createSub", "updateSub"}
    /\ ctorCfg \in LET given == SubscriberConfigs \cup
                                  {DefaultsConfig(id, t) : id \in SubscriptionIDs, t \in TopicNames}
                   IN  given \cup {applyDefaults(c) : c \in given}
    /\ Len(ctorLog) <= MaxCtorCalls
\* ===================================================================
\* Claims about Subscriber.Consume
\* ===================================================================

\* C1: when a Consume call has returned, on the handler-error exit as on the
\* ctx-cancellation exit (and when a panic leaves it), its errChan has been
\* closed, exactly once, so the caller's range loop ends as soon as it has
\* drained the buffer.
C1_ErrChanClosedOnReturn ==
    \A c \in Calls :
        Finished(c) => errClosed[c] /\ closeCount[c] = 1

\* C1 witness: a call has returned after a handler error, and its caller has
\* ranged over errChan to the end and received that error.
C1_Witness ==
    \E c \in Calls :
        /\ pc[c] = "returned" /\ failedAt[c] # 0
        /\ RangeEnded(c) /\ got[c] = <<HandlerError>>

\* C2: at most one handler invocation is in progress on the Subscriber at any
\* time, whatever the interleaving of the Consume calls and the deliveries.
C2_OneHandlerAtATime ==
    Cardinality({c \in Calls : pc[c] = "handler"}) <= 1

\* C2 witness: call 2 runs the handler after call 1 has run it, with call 1
\* not yet returned.
C2_Witness ==
    /\ pc[2] = "handler"
    /\ handlerRuns[1] >= 1
    /\ ~Finished(1)

\* C3 (as stated): a call made while another call is running stays blocked on
\* the lock until that other call has returned.
C3_BlocksUntilReturned ==
    \A d \in Calls : \A c \in runningAtCall[d] :
        ~Finished(c) => pc[d] = "lock"

\* C3 (amended): a call made while another call is running stays blocked on
\* the lock (no receive started, no handler invoked) until that other call has
\* released the lock; the other call's deferred close(errChan) and its return
\* may come later.
C3_BlocksUntilUnlocked ==
    \A d \in Calls : \A c \in runningAtCall[d] :
        HoldsLock(c) => pc[d] = "lock" /\ gr[d] = "none" /\ handlerRuns[d] = 0

\* C3 witness: call 2 was made while call 1 was in its loop and is waiting on
\* the lock that call 1 still holds.
C3_Witness ==
    /\ 1 \in runningAtCall[2]
    /\ pc[1] = "handler"
    /\ pc[2] = "lock"

C5_PanicContained ==
    \A c \in Calls :
        (panicking[c] /\ errClosed[c]) =>
            /\ pc[c] = "returned"
            /\ CountOf(sent[c], PanicError) = 1
            /\ ackState[cur[c]] = "nack"

\* C6 (as stated): errChan is closed once per call and no send is attempted
\* on it after it has been closed.
C6_NoSendAfterClose ==
    /\ ~crashed
    /\ \A c \in Calls : closeCount[c] <= 1 /\ gr[c] # "panic"

\* C7: a call that leaves its loop through ctx.Done() with no transport error
\* of its receive primitive has sent nothing on errChan, and nothing is sent
\* afterwards; errChan is closed when it has returned; and once ctx is
\* cancelled a call in its loop does finish.
C7_ExitSilent ==
    \A c \in Calls :
        (pc[c] \in {"unlock", "close", "returned"} /\ failedAt[c] = 0
            /\ ~panicking[c] /\ ~recvFailed[c]) =>
            /\ cancelled[c]
            /\ sent[c] = <<>>
            /\ got[c] = <<>>
            /\ pc[c] = "returned" => errClosed[c]

C7_CancelReturns ==
    \A c \in Calls :
        (InLoop(c) /\ cancelled[c]) ~> (Finished(c) \/ crashed)

C8_ReceiveErrorTerminates ==
    \A c \in Calls :
        (recvFailed[c] /\ InLoop(c)) ~> (Finished(c) \/ crashed)

\* C9 (as stated): when Receive has returned an error and the goroutine is
\* done, the error was sent exactly once if errChan was open at the check,
\* and not at all if errChan was closed.
C9_ReceiveErrorSentOnce ==
    \A c \in Calls :
        (recvFailed[c] /\ gr[c] = "done") =>
            /\ checkSaw[c] \in {"open", "value"} => CountOf(sent[c], ReceiveError) = 1
            /\ checkSaw[c] = "closed" => CountOf(sent[c], ReceiveError) = 0

\* C10 (as stated): no error placed on errChan is taken off it by Consume or
\* its goroutine, and a caller that has ranged over errChan to its end has
\* received every handler error.
C10_HandlerErrorReported ==
    \A c \in Calls :
        /\ removed[c] = <<>>
        /\ RangeEnded(c) => CountOf(got[c], HandlerError) = CountOf(sent[c], HandlerError)

\* C11: the acknowledgment of a message matches its handler outcome.  A
\* message is acked only if its handler returned nil and nacked only if its
\* handler returned an error, never both; a message whose handler returned nil
\* is acked, and one whose handler returned an error is nacked once the loop
\* has passed its errChan send.  After a nil outcome the call is back at the
\* select of its loop.
C11_AckStateMatches ==
    \A m \in Msgs :
        /\ ackState[m] # "both"
        /\ ackState[m] = "ack" => outcome[m] = "nil"
        /\ ackState[m] = "nack" => outcome[m] = "err"
        /\ outcome[m] = "nil" => ackState[m] = "ack"
        /\ outcome[m] = "err" =>
              \/ ackState[m] = "nack"
              \/ \E c \in Calls : cur[c] = m /\ pc[c] \in {"send", "nack"}

C11_LoopContinuesAfterAck ==
    \A c \in Calls :
        (pc[c] = "handler" /\ outcome'[cur[c]] = "nil") =>
            /\ pc'[c] = "select"
            /\ ackState'[cur[c]] = "ack"

C11_AckMatchesOutcome ==
    /\ []C11_AckStateMatches
    /\ [][C11_LoopContinuesAfterAck]_vars

\* C11 witness: one call acked its first message, went on to the second, whose
\* handler failed, and nacked it.
C11_Witness ==
    \E c \in Calls :
        /\ handlerRuns[c] = 2 /\ failedAt[c] = 2
        /\ \E m1, m2 \in Msgs :
              /\ outcome[m1] = "nil" /\ ackState[m1] = "ack"
              /\ outcome[m2] = "err" /\ ackState[m2] = "nack"

\* C12 (as stated): every message the receive primitive has delivered gets
\* exactly one acknowledgment from the consume loop: it is never acknowledged
\* twice, and a delivered message without ack or nack is still held by a call
\* that has not finished (in a callback, in the internal channel or in the
\* running iteration).
C12_EveryDeliveredAckedOnce ==
    \A m \in Msgs :
        /\ ackState[m] # "both"
        /\ (m < nextMsg /\ ackState[m] = "none") =>
              \E c \in Calls :
                  /\ ~Finished(c)
                  /\ \/ m \in pending[c]
                     \/ \E i \in DOMAIN message[c] : message[c][i] = m
                     \/ cur[c] = m

\* C13: both counters start at zero and never decrease; at every moment
\* messagesReceivedCount is the number of handler invocations started by all
\* the Consume calls so far, messagesProcessedCount the number of invocations
\* that returned nil, and messagesProcessedCount <= messagesReceivedCount.
C13_CountersMatch ==
    /\ messagesReceivedCount = HandlerRunsUpTo(NumCalls)
    /\ messagesProcessedCount = Cardinality({m \in Msgs : outcome[m] = "nil"})
    /\ messagesProcessedCount <= messagesReceivedCount

C13_CountersNeverDecrease ==
    /\ messagesReceivedCount' >= messagesReceivedCount
    /\ messagesProcessedCount' >= messagesProcessedCount

C13_CountersAreExact ==
    /\ messagesReceivedCount = 0 /\ messagesProcessedCount = 0
    /\ []C13_CountersMatch
    /\ [][C13_CountersNeverDecrease]_vars

\* C13 witness: two calls have each started the handler, one invocation
\* returned nil and the other an error, so the counters differ.
C13_Witness ==
    /\ handlerRuns[1] = 1 /\ handlerRuns[2] = 1
    /\ messagesReceivedCount = 2 /\ messagesProcessedCount = 1
    /\ \E m \in Msgs : outcome[m] = "err"

\* C14 (as stated): once ctx is cancelled, the Receive started by the call
\* unwinds and returns and the receive goroutine terminates; no callback stays
\* blocked on the internal channel for ever.
C14_ReceiveUnwinds ==
    \A c \in Calls :
        (cancelled[c] /\ gr[c] = "receiving") ~> (gr[c] \in {"done", "panic"} \/ crashed)

\* C15: a call that has returned (after a handler error, after a
\* cancellation, or unwound by a panic) no longer holds the Subscriber's lock,
\* and a call waiting for the lock once every other call has returned does
\* acquire it and runs its loop.
C15_LockFreeAfterReturn ==
    \A c \in Calls :
        pc[c] \in {"close", "returned", "panicked"} => mutex # c

C15_NextCallAcquires ==
    \A d \in Calls :
        (pc[d] = "lock" /\ \A c \in Calls \ {d} : Finished(c))
            ~> (pc[d] # "lock" \/ crashed)

C15_LockReleasedOnReturn ==
    /\ []C15_LockFreeAfterReturn
    /\ C15_NextCallAcquires

\* C15 witness: call 1 has returned after its handler failed on its first
\* message, and call 2 holds the lock and has processed a message.
C15_Witness ==
    /\ pc[1] = "returned" /\ failedAt[1] = 1
    /\ mutex = 2 /\ pc[2] = "select"
    /\ handlerRuns[2] = 1 /\ messagesProcessedCount = 1

\* ===================================================================
\* Claims about NewSubscriber and SubscriberConfig.Validate
\* ===================================================================

\* C16: for a malformed config (nil config, missing subscription spec, empty
\* topic, empty name) NewSubscriber returns a nil Subscriber and a non-nil
\* error, "config is not set" for the nil config and the error of Validate
\* otherwise, and makes no remote call: the call never gets to GetTopic and
\* the remote state is left as it was.
C16_Malformed(g) ==
    ~g.present \/ ~g.hasSpec \/ g.spec.topic = "" \/ g.spec.name = ""

C16_MalformedConfigRejected ==
    /\ ctorPc # "idle" => ~C16_Malformed(ctorGiven)
    /\ \A i \in DOMAIN ctorLog :
          C16_Malformed(ctorLog[i].given) =>
              /\ ctorLog[i].isNil /\ ctorLog[i].subscriber = ""
              /\ ctorLog[i].err # NoErr
              /\ ctorLog[i].calls = <<>>
              /\ ~ctorLog[i].given.present =>
                    ctorLog[i].err = Err("config is not set", "")
              /\ ctorLog[i].given.present =>
                    /\ ctorLog[i].err = Validate(ctorLog[i].given)
                    /\ ctorLog[i].err[1] \in
                          {"subscription config is not set",
                           "subscription logger is not set",
                           "subscription topic is not set",
                           "subscription id is not set"}

\* C16 witness: NewSubscriber was called with the nil config and then with a
\* config whose topic is empty, and returned the two errors.
C16_Witness ==
    /\ Len(ctorLog) = 2
    /\ ctorLog[1].given = NilCfg /\ ctorLog[1].err = Err("config is not set", "")
    /\ ctorLog[2].given.hasSpec /\ ctorLog[2].given.logger
    /\ ctorLog[2].given.spec.topic = "" /\ ctorLog[2].given.spec.name = "s1"
    /\ ctorLog[2].err = Err("subscription topic is not set", "")
    /\ rTopics # {}

\* C17: Validate returns nil exactly when the subscription spec and the
\* logger are present and the spec's topic and name are non-empty; otherwise
\* it returns the error of the first violated assertion, in the order spec,
\* logger, topic, name; and the config is as the caller passed it.
C17_FirstViolation(g) ==
    IF ~g.hasSpec THEN Err("subscription config is not set", "")
    ELSE IF ~g.logger THEN Err("subscription logger is not set", "")
    ELSE IF g.spec.topic = "" THEN Err("subscription topic is not set", "")
    ELSE IF g.spec.name = "" THEN Err("subscription id is not set", "")
    ELSE NoErr

C17_ValidateFailFast ==
    (ctorGiven.present /\ validateErr # Pending) =>
        /\ validateErr = C17_FirstViolation(ctorGiven)
        /\ validateErr = NoErr <=>
              /\ ctorGiven.hasSpec /\ ctorGiven.logger
              /\ ctorGiven.spec.topic # "" /\ ctorGiven.spec.name # ""
        /\ validateErr # NoErr => ctorCfg = ctorGiven

\* C17 witness: a config with neither logger nor topic was validated, and the
\* error is the logger's, the first of the two violated assertions.
C17_Witness ==
    /\ ctorGiven.present /\ ctorGiven.hasSpec
    /\ ~ctorGiven.logger /\ ctorGiven.spec.topic = ""
    /\ validateErr = Err("subscription logger is not set", "")

\* C18: what ensureSubscription returns is determined by the answer to
\* CreateSubscription.  Success: the created subscription, no update.
\* AlreadyExists: one UpdateSubscription with the same spec, and the updated
\* subscription or the update's error.  NotFound: the error "topic <topic> not
\* found", no update.  Any other failure: that error unchanged, no update.
C18_ReturnedAfterCreate(c) ==
    CASE c.answer = "ok" ->
            /\ subRes = SubResult(c.sub, NoErr)
            /\ CallsTo("UpdateSubscription") = {}
      [] c.answer = "AlreadyExists" ->
            /\ Cardinality(CallsTo("UpdateSubscription")) = 1
            /\ \A j \in CallsTo("UpdateSubscription") :
                  /\ ctorCalls[j].sub = c.sub
                  /\ ctorCalls[j].answer = "ok" =>
                        /\ subRes.err = NoErr
                        /\ subRes.sub \in rSubs /\ subRes.sub.name = c.sub.name
                  /\ ctorCalls[j].answer # "ok" =>
                        subRes = SubResult(NoSub, RemoteErr(ctorCalls[j].answer,
                                                            "UpdateSubscription"))
      [] c.answer = "NotFound" ->
            /\ subRes = SubResult(NoSub, Err("topic %s not found", c.sub.topic))
            /\ CallsTo("UpdateSubscription") = {}
      [] OTHER ->
            /\ subRes = SubResult(NoSub, RemoteErr(c.answer, "CreateSubscription"))
            /\ CallsTo("UpdateSubscription") = {}

C18_EnsureSubscriptionResult ==
    /\ Cardinality(CallsTo("CreateSubscription")) <= 1
    /\ CallsTo("UpdateSubscription") # {} =>
          \E i \in CallsTo("CreateSubscription") : ctorCalls[i].answer = "AlreadyExists"
    /\ subRes.err # Pending =>
          /\ CallsTo("CreateSubscription") # {}
          /\ \A i \in CallsTo("CreateSubscription") :
                C18_ReturnedAfterCreate(ctorCalls[i])

\* C18 witness: the subscription existed, CreateSubscription failed with
\* AlreadyExists, and ensureSubscription returned what UpdateSubscription
\* answered, with no answer injected.
C18_Witness ==
    /\ ~ctorInjected
    /\ subRes.err = NoErr /\ subRes.sub.name = "s1"
    /\ \E i \in CallsTo("CreateSubscription") : ctorCalls[i].answer = "AlreadyExists"
    /\ \E j \in CallsTo("UpdateSubscription") : ctorCalls[j].answer = "ok"

\* C19: ensureTopic returns nil exactly when GetTopic answers a non-empty
\* topic, or GetTopic answers an empty topic and CreateTopic then answers a
\* non-empty one.  An error of GetTopic is returned as it is, with no
\* CreateTopic; an error of CreateTopic is returned; an empty topic from
\* CreateTopic gives the error "topic <topic> does not exist".
C19_ReturnedAfterGet(g) ==
    CASE g.answer = "ok" ->
            /\ topicRes = NoErr
            /\ CallsTo("CreateTopic") = {}
      [] g.answer = "empty" ->
            /\ Cardinality(CallsTo("CreateTopic")) = 1
            /\ \A j \in CallsTo("CreateTopic") :
                  /\ ctorCalls[j].sub.topic = g.sub.topic
                  /\ topicRes =
                        CASE ctorCalls[j].answer = "ok" -> NoErr
                          [] ctorCalls[j].answer = "empty" ->
                                Err("topic %s does not exist", g.sub.topic)
                          [] OTHER -> RemoteErr(ctorCalls[j].answer, "CreateTopic")
      [] OTHER ->
            /\ topicRes = RemoteErr(g.answer, "GetTopic")
            /\ CallsTo("CreateTopic") = {}

C19_Witness ==
    /\ ~ctorInjected
    /\ topicRes = RemoteErr("NotFound", "GetTopic")
    /\ CallsTo("CreateTopic") = {}
    /\ rTopics = {}

C20_SecondAfterFirst ==
    /\ Len(ctorLog) = 2
    /\ ~ctorLog[1].injected /\ ctorLog[1].err = NoErr
    /\ ~ctorLog[2].injected /\ Validate(ctorLog[2].given) = NoErr
    /\ ctorLog[2].given.present
    /\ ctorLog[2].given.spec.name = ctorLog[1].given.spec.name
    /\ ctorLog[2].given.spec.topic = ctorLog[1].given.spec.topic

C20_ReconcileIdempotent ==
    C20_SecondAfterFirst =>
        /\ ctorLog[2].err = NoErr
        /\ \E i \in DOMAIN ctorLog[2].calls :
              /\ ctorLog[2].calls[i].fn = "CreateSubscription"
              /\ ctorLog[2].calls[i].answer = "AlreadyExists"
        /\ \E i \in DOMAIN ctorLog[2].calls :
              /\ ctorLog[2].calls[i].fn = "UpdateSubscription"
              /\ ctorLog[2].calls[i].answer = "ok"
        /\ Cardinality({r \in rSubs : r.name = ctorLog[2].given.spec.name}) = 1
        /\ \A r \in rSubs :
              r.name = ctorLog[2].given.spec.name => r = ctorLog[2].cfg.spec

\* C21 (as stated): a NewSubscriber call whose topic does not exist and whose
\* creation attempt fails (CreateTopic answers an error or an empty topic)
\* returns no Subscriber and an error that names the missing topic, and makes
\* neither a CreateSubscription nor an UpdateSubscription call, so no
\* subscription is left behind.
C21_CreationFailed(e) ==
    \E j \in DOMAIN e.calls :
        /\ e.calls[j].fn = "CreateTopic"
        /\ e.calls[j].answer \in {"empty"} \cup (ErrorCodes \ {"AlreadyExists"})

C21_MissingTopicRejected ==
    \A k \in DOMAIN ctorLog :
        C21_CreationFailed(ctorLog[k]) =>
            /\ ctorLog[k].isNil /\ ctorLog[k].subscriber = ""
            /\ ctorLog[k].err # NoErr
            /\ ctorLog[k].err[2] = ctorLog[k].cfg.spec.topic
            /\ \A j \in DOMAIN ctorLog[k].calls :
                  ctorLog[k].calls[j].fn \notin {"CreateSubscription", "UpdateSubscription"}

\* C22 (as stated): when a NewSubscriber call has returned a Subscriber, the
\* subscription it reconciled carries a retry policy; if the caller's spec had
\* none, that subscription has minimumBackoff 200ms and maximumBackoff 600s;
\* and every CreateSubscription / UpdateSubscription request of the call
\* carries the caller's retry policy unchanged, or the defaults if the caller
\* gave none.
C22_Returned ==
    /\ ctorPc = "idle" /\ ctorLog # <<>>
    /\ ctorLog[Len(ctorLog)].err = NoErr

C22_ExplicitRetryPolicy ==
    C22_Returned =>
        LET e == ctorLog[Len(ctorLog)]
            given == e.given.spec.retry
        IN  /\ subRes.sub.retry # NoRetry
            /\ given = NoRetry => subRes.sub.retry = DefaultRetry
            /\ \A j \in DOMAIN e.calls :
                  e.calls[j].fn \in {"CreateSubscription", "UpdateSubscription"} =>
                      e.calls[j].sub.retry = IF given = NoRetry THEN DefaultRetry ELSE given

\* C23 (as stated): a NewSubscriberWithDefaults call with a non-empty
\* subscriptionID and the name of a topic that exists, against a remote that
\* answers as its state says, builds a config that passes Validate, whose
\* subscription has the subscriptionID as name, the topicName as topic, an ack
\* deadline of 10 seconds and message ordering enabled, and returns a
\* Subscriber of that subscription with a nil error.
C23_ViaDefaults(e) ==
    /\ e.given \in {DefaultsConfig(id, t) : id \in SubscriptionIDs \ {""}, t \in TopicNames}
    /\ e.given.spec.topic \in e.topics
    /\ ~e.injected

C23_DefaultsSucceed ==
    \A k \in DOMAIN ctorLog :
        C23_ViaDefaults(ctorLog[k]) =>
            /\ Validate(ctorLog[k].given) = NoErr
            /\ ctorLog[k].given.spec.name = ctorLog[k].given.subscriptionID
            /\ ctorLog[k].given.spec.ackDeadlineSeconds = 10
            /\ ctorLog[k].given.spec.enableMessageOrdering
            /\ ctorLog[k].err = NoErr /\ ~ctorLog[k].isNil
            /\ ctorLog[k].subscriber = ctorLog[k].given.subscriptionID

\* C28 (as stated): once ctx has been cancelled, a Consume call that stands at
\* its select starts no handler invocation: a message buffered in the internal
\* channel is not taken, and the call leaves the select only through the
\* ctx.Done branch.
C28_NoHandlerAfterCancel ==
    [][\A c \in Calls :
          (cancelled[c] /\ pc[c] = "select") => pc'[c] \in {"select", "unlock"}]_vars

\* C29 (as stated): at most one receive operation of the Subscriber is active
\* at any time; and when a Consume call has returned because of a handler
\* error, its ctx not cancelled, and a later call has started its own receive
\* operation, the receive operation of the earlier call is no longer active
\* (it pulls no message from the subscription).
\* (a receive operation is active while it can pull: Receive has not returned,
\* its ctx is not cancelled and its transport has not failed)
C29_ReceiveActive(c) == gr[c] = "receiving" /\ ~recvFailed[c] /\ ~cancelled[c]

C29_OneReceiveAtATime ==
    /\ Cardinality({c \in Calls : C29_ReceiveActive(c)}) <= 1
    /\ \A c, d \in Calls :
          (/\ c < d
           /\ pc[c] = "returned" /\ failedAt[c] # 0 /\ ~cancelled[c]
           /\ gr[d] # "none")
          => ~C29_ReceiveActive(c)

\* ===================================================================
\* Claims about the JobsScheduler
\* ===================================================================

\* C24: a Schedule call on a scheduler that has not been started, or that was
\* started and then stopped, returns an error (ErrSchedulerNotStarted) and
\* leaves the registered jobs and the quartz queue as they were; and no job
\* is ever run unless a Schedule call for it returned nil.
C24_RefusedStep ==
    \A c \in CronExpressions, j \in JobObjects, o \in QuartzAnswers :
        (Schedule(c, j, o) /\ phase # "started") =>
            /\ lastSchedule'.err = ErrSchedulerNotStarted
            /\ jobs' = jobs /\ quartzQueue' = quartzQueue /\ accepted' = accepted

C24_NotStartedRefuses ==
    /\ [][C24_RefusedStep]_vars
    /\ [](\A j \in jobRuns : j \in accepted)
    /\ [](\A q \in quartzQueue : q.job \in accepted)

\* C24 witness: Schedule was refused on a scheduler that had been started and
\* stopped; the scheduler has been started again and has run another job,
\* and the refused job is neither registered nor run.
C24_Witness ==
    /\ lastSchedule.err = ErrSchedulerNotStarted
    /\ lastSchedule.phase = "stopped"
    /\ phase = "started" /\ quartzStarted
    /\ jobRuns # {}
    /\ lastSchedule.job \notin jobRuns \cup jobs \cup accepted

\* C25: the registered jobs have distinct IDs, and so have the entries of the
\* quartz queue, which holds registered jobs only.  A Schedule call with the ID
\* of a registered job returns an error and leaves the registered jobs, the
\* quartz queue (the trigger of the first job) and the running state of the
\* quartz scheduler unchanged.  A Schedule call that returns an error, for
\* whatever reason, leaves the registered jobs and the quartz queue unchanged.
C25_ScheduleStep ==
    \A c \in CronExpressions, j \in JobObjects, o \in QuartzAnswers :
        Schedule(c, j, o) =>
            /\ (\E r \in jobs : r.id = j.id) =>
                  /\ lastSchedule'.err # NoErr
                  /\ jobs' = jobs /\ quartzQueue' = quartzQueue
                  /\ quartzStarted' = quartzStarted
            /\ lastSchedule'.err # NoErr =>
                  jobs' = jobs /\ quartzQueue' = quartzQueue
            /\ lastSchedule'.err = NoErr => j \in jobs'

C25_UniqueJobIDs ==
    /\ [](\A a, b \in jobs : a.id = b.id => a = b)
    /\ [](\A p, q \in quartzQueue : p.key = q.key => p = q)
    /\ [](\A q \in quartzQueue : q.job \in jobs /\ q.key = q.job.id)
    /\ [][C25_ScheduleStep]_vars

\* C25 witness: Schedule was called with a second job that has the ID of a
\* registered job and returned "job (j1) is already added"; the first job is
\* still the registered one, still in the quartz queue, and has run; the
\* second has not.
C25_Witness ==
    /\ lastSchedule.err = Err("job (%s) is already added", "j1")
    /\ lastSchedule.job = [id |-> "j1", n |-> 2]
    /\ jobs = {[id |-> "j1", n |-> 1]}
    /\ \E q \in quartzQueue : q.job = [id |-> "j1", n |-> 1]
    /\ jobRuns = {[id |-> "j1", n |-> 1]}

\* ===================================================================
\* Claims about the TxRunner
\* ===================================================================

\* C26: Execute makes at most one Commit or Rollback, and when it has
\* returned exactly one, as the last operation on the transaction.  If a
\* BuildQuery fails, no statement has been executed, the builders after the
\* failing one were not asked, the transaction is rolled back and the error
\* returned is that BuildQuery error.  Otherwise the statements are executed
\* in the order of the builders, up to the first that fails: then the
\* transaction is rolled back and that execution error is returned.  The
\* transaction is committed exactly when every BuildQuery and every
\* execution succeeded, and Execute then returns what Commit returned.  (When
\* the Rollback itself fails, the error returned is the same error with the
\* rollback's message in front of it.)
C26_Ends == {i \in DOMAIN txOps : txOps[i][1] \in {"commit", "rollback"}}
C26_Execs == SelectSeq(txOps, LAMBDA op : op[1] = "exec")
C26_BuildFails == {i \in DOMAIN builders : builders[i].build = "error"}
C26_ExecFails == {i \in DOMAIN builders : builders[i].exec = "error"}
C26_Min(S) == CHOOSE i \in S : \A j \in S : i <= j
C26_UpTo(n) == [i \in 1..n |-> TxOp("exec", i)]

C26_CommitOrRollback ==
    /\ Cardinality(C26_Ends) <= 1
    /\ txPc = "done" =>
          /\ C26_Ends = {Len(txOps)}
          /\ IF C26_BuildFails # {}
                THEN /\ C26_Execs = <<>>
                     /\ txOps = <<TxOp("rollback", 0)>>
                     /\ txBuilt = [i \in 1..C26_Min(C26_BuildFails) |-> i]
                     /\ txErr.cause = <<"BuildQuery", C26_Min(C26_BuildFails)>>
             ELSE IF C26_ExecFails # {}
                THEN /\ txOps = Append(C26_UpTo(C26_Min(C26_ExecFails)), TxOp("rollback", 0))
                     /\ txErr.cause = <<"ExecContext", C26_Min(C26_ExecFails)>>
                ELSE /\ txOps = Append(C26_UpTo(Len(builders)), TxOp("commit", 0))
                     /\ txErr \in {TxNil, TxError("Commit", 0)}
          /\ txErr.wrap # "" => txOps[Len(txOps)] = TxOp("rollback", 0)

\* C26 witness: of three builders the second builds a statement that fails:
\* the first and the second statement were executed, in this order, the
\* third was not, the transaction was rolled back and Execute returned the
\* error of the second execution.
C26_Witness ==
    /\ txPc = "done"
    /\ Len(builders) = 3
    /\ C26_BuildFails = {} /\ C26_ExecFails = {2}
    /\ txOps = <<TxOp("exec", 1), TxOp("exec", 2), TxOp("rollback", 0)>>
    /\ txErr = TxError("ExecContext", 2)

\* ===================================================================
\* Claims about the Future
\* ===================================================================

\* C27 (as stated): an Await call returns only when the task has completed or
\* the call's own ctx is cancelled; it returns the task's value and a nil
\* error if the task has completed with a value, the task's error if it has
\* completed with an error, or the context error if its own ctx is cancelled;
\* and the completion is put on the Future at most once.
C27_Returned(r) ==
    /\ r.completed \/ r.cancelled
    /\ \/ r.completed /\ taskState = "value" /\ r.value = TaskValue /\ r.err = ""
       \/ r.completed /\ taskState = "error" /\ r.err = TaskError
       \/ r.cancelled /\ r.err = ContextCanceled

C27_AwaitReturnsOwnOutcome ==
    /\ completions <= 1
    /\ \A a \in Awaits : awaitPc[a] = "returned" => C27_Returned(awaitRes[a])

\* ===================================================================
\* Claims about the Publisher
\* ===================================================================

\* C30 (as stated): when Publish has returned for a batch that has a message
\* with an empty key, on a topic with ordering enabled, it has returned the
\* error "message key is required when MessageOrdering is enabled" and has
\* handed no message of the batch to t.Publish.
C30_BatchRejectedAsAWhole ==
    (/\ publishPc = "done"
     /\ enableMessageOrdering
     /\ \E i \in DOMAIN messages : messages[i] = "")
    => /\ publishErr = KeyRequired
       /\ results = <<>>
====
